---- MODULE Spec2Model ----
(***************************************************************************)
(* A model of the CIBIL score backend (main_app): the scoring engine of    *)
(* cibil_calculator.py (DynamicCibilScoreCalculator), the cibil_scores     *)
(* table of models.py with its is_latest flag, and the score endpoint of   *)
(* views.py (process_cibil_score).                                         *)
(*                                                                         *)
(* Numbers.  The code computes in Python floats and Decimals; the model    *)
(* computes the same quantities in integers of a fixed unit:               *)
(*   factor scores, weighted contributions      1/100 of a score point     *)
(*   supplied weights (custom_weights values)   1/100   (35 % is 3500,     *)
(*                                                       0.35 is 35)       *)
(*   weight fractions                           1/10000 (0.35 is 3500)     *)
(*   sub-multipliers                            1/100   (0.85 is 85)       *)
(*   behavioral multiplier (4 decimals)         1/10000                    *)
(*   range_multiplier (3 decimals)              1/1000                     *)
(*   0-100 totals handed to the converter       1/100000 of a score point  *)
(*   rupee amounts                              whole rupees               *)
(*   dates                                      days before "now"          *)
(* Normalised weights are kept as exact fractions w[k] / total.  A 0-100   *)
(* total is cut to 1/100000 of a point before it is converted, and the     *)
(* converter's power_score is read from a table in 1/10^9: a final score   *)
(* can differ by one point from the float result where int() falls on a    *)
(* boundary, and at a total of exactly 50, where the exponent changes.     *)
(***************************************************************************)
EXTENDS Integers, Sequences, FiniteSets, TLC

VARIABLES
    db,            \* [customer -> the customer's stored financial history]
    cibil_scores,  \* the committed rows of table cibil_scores, in insertion order
    request,       \* [worker -> the call the worker is serving]
    pc,            \* [worker -> where the worker stands in that call]
    local,         \* [worker -> the locals of the call: calculator, new_score, transaction]
    response       \* [worker -> what the worker's last call returned]

vars == <<db, cibil_scores, request, pc, local, response>>

----------------------------------------------------------------------------
(* Bounds of the model *)

MaxPayments == 3   \* payment_history rows of one customer
MaxCards == 2      \* credit_cards rows of one customer
MaxLoans == 3      \* loans rows of one customer
MaxAccounts == 1   \* bank_accounts rows of one customer
MaxScores == 3     \* cibil_scores rows and calls in progress (Spec, SpecConcurrent)
MaxStored == 1     \* financial rows added while the system runs (Spec)

----------------------------------------------------------------------------
(* Arithmetic helpers *)

Max(a, b) == IF a >= b THEN a ELSE b
Min(a, b) == IF a <= b THEN a ELSE b

RECURSIVE SumOver(_, _)
\* the sum of f[k] over k in S
SumOver(S, f) ==
    IF S = {} THEN 0
    ELSE LET k == CHOOSE x \in S : TRUE IN f[k] + SumOver(S \ {k}, f)

Total(f) == SumOver(DOMAIN f, f)

\* Python round(n / d, .) to the unit of n / d, for n >= 0 and d > 0:
\* to the nearest unit, an exact half to the even neighbour
RoundDiv(n, d) ==
    LET q == n \div d
        r == n % d
    IN  IF 2 * r > d THEN q + 1
        ELSE IF 2 * r = d THEN (IF q % 2 = 0 THEN q ELSE q + 1)
        ELSE q

\* floor(a * b / d) for d > 0 without leaving 32 bits: a = hi * d + lo
MulDiv(a, b, d) == (a \div d) * b + ((a % d) * b) \div d

----------------------------------------------------------------------------
(* The stored financial history (models.py) *)

Customers == {"c1", "c2"}

\* PaymentHistory.PAYMENT_STATUS
PaymentStatuses ==
    {"ON_TIME", "LATE_1_30", "LATE_31_60", "LATE_61_90", "LATE_90_PLUS",
     "MISSED", "DEFAULTED"}
LateStatuses == {"LATE_1_30", "LATE_31_60", "LATE_61_90", "LATE_90_PLUS"}
MissedStatuses == {"MISSED", "DEFAULTED"}

\* Loan.LOAN_TYPES
LoanTypes ==
    {"HOME_LOAN", "PERSONAL_LOAN", "CAR_LOAN", "EDUCATION_LOAN",
     "BUSINESS_LOAN", "GOLD_LOAN"}

\* The rows the model stores.  A row keeps the fields the engine reads; a
\* date field holds the number of days between the date and "now".
PaymentRows ==
    [payment_status : {"ON_TIME", "LATE_1_30", "MISSED"}, payment_date : {30, 300}]

Card(active, limit, balance, issued, created) ==
    [is_active |-> active, credit_limit |-> limit, current_balance |-> balance,
     card_issued_date |-> issued, created_at |-> created]

CardRows ==
    {Card(TRUE, 20000, b, 400, 400) : b \in {0, 1500, 5000, 9000, 13000, 17000, 25000}}
    \cup {Card(TRUE, 40000, b, 400, 400) : b \in {0, 600}}
    \cup {Card(TRUE, 60000, b, 400, 400) : b \in {0, 1000}}
    \cup {Card(TRUE, 120000, b, 400, 400) : b \in {0, 5000, 12000}}
    \cup {Card(TRUE, 600000, b, 400, 400) : b \in {0, 30000}}
    \cup {Card(TRUE, 0, 0, 400, 400), Card(FALSE, 20000, 0, 400, 400),
          Card(TRUE, 20000, 1500, 30, 30)}

Loan(st, type, start, created) ==
    [status |-> st, loan_type |-> type, loan_start_date |-> start, created_at |-> created]

LoanRows ==
    {Loan("ACTIVE", t, 2000, 400) : t \in {"HOME_LOAN", "CAR_LOAN", "PERSONAL_LOAN", "EDUCATION_LOAN"}}
    \cup {Loan("CLOSED", "HOME_LOAN", 2000, 400), Loan("ACTIVE", "GOLD_LOAN", 30, 30)}

AccountRows ==
    [is_active : {TRUE}, account_opened_date : {100, 1000, 2000, 4000}]
    \cup {[is_active |-> FALSE, account_opened_date |-> 4000]}

\* A table of one customer is a bag of rows: [row -> how many such rows].
EmptyBag(Rows) == [r \in Rows |-> 0]
AddRow(bag, r) == [bag EXCEPT ![r] = @ + 1]
Rows(bag) == {r \in DOMAIN bag : bag[r] > 0}
Count(bag, S) == SumOver(S \cap DOMAIN bag, bag)

RECURSIVE BagsUpTo(_, _)
\* every bag of at most n rows
BagsUpTo(RowSet, n) ==
    IF n = 0 THEN {EmptyBag(RowSet)}
    ELSE LET B == BagsUpTo(RowSet, n - 1)
         IN  B \cup {AddRow(b, r) : b \in B, r \in RowSet}

History(p, c, l, a) ==
    [payment_history |-> p, credit_cards |-> c, loans |-> l, bank_accounts |-> a]

EmptyHistory ==
    History(EmptyBag(PaymentRows), EmptyBag(CardRows), EmptyBag(LoanRows),
            EmptyBag(AccountRows))

----------------------------------------------------------------------------
(* DynamicCibilScoreCalculator: weights *)

FactorNames ==
    {"payment_history", "credit_utilization", "credit_history_length",
     "credit_mix", "new_credit"}

default_score_factors ==
    [payment_history |-> 3500, credit_utilization |-> 3000,
     credit_history_length |-> 1500, credit_mix |-> 1000, new_credit |-> 1000]

\* Variant: every supplied weight is taken as a percentage.
AlwaysPercent(value) == value

\* float(value) / 100 if float(value) > 1 else float(value), as a fraction
\* in 1/10000 of a supplied weight in 1/100
PercentToFraction(value) == IF value > 100 THEN value ELSE 100 * value

\* Variant: the fractions are returned without the division by their total.
WeightsWithoutDivision(custom_weights) ==
    [error |-> "none",
     weights |-> [key \in FactorNames |->
                    IF key \in DOMAIN custom_weights
                    THEN PercentToFraction(custom_weights[key])
                    ELSE default_score_factors[key]],
     total |-> 10000]

\* Variant: a zero total falls back to the default weights instead of raising.
DefaultsOnZeroTotal(custom_weights) ==
    LET normalized_weights ==
            [key \in FactorNames |->
                IF key \in DOMAIN custom_weights
                THEN PercentToFraction(custom_weights[key])
                ELSE default_score_factors[key]]
        total_weight == Total(normalized_weights)
    IN  IF total_weight <= 0
        THEN [error |-> "none", weights |-> default_score_factors, total |-> 10000]
        ELSE [error |-> "none", weights |-> normalized_weights, total |-> total_weight]

\* _validate_and_normalize_weights.  The result is the mapping
\* k -> weights[k] / total; error is "ZeroDivisionError" when the division by
\* total_weight raises.
_validate_and_normalize_weights(custom_weights) ==
    LET normalized_weights ==
            [key \in FactorNames |->
                IF key \in DOMAIN custom_weights
                THEN PercentToFraction(custom_weights[key])
                ELSE default_score_factors[key]]
        total_weight == Total(normalized_weights)
    IN  IF total_weight = 10000
        THEN [error |-> "none", weights |-> normalized_weights, total |-> 10000]
        ELSE IF total_weight = 0
        THEN [error |-> "ZeroDivisionError", weights |-> normalized_weights, total |-> 0]
        ELSE IF total_weight < 0
        THEN [error |-> "none",
              weights |-> [key \in FactorNames |-> 0 - normalized_weights[key]],
              total |-> 0 - total_weight]
        ELSE [error |-> "none", weights |-> normalized_weights, total |-> total_weight]

\* __init__: custom weights if provided (a non-empty mapping), else the defaults
score_factors_of(custom_weights) ==
    IF DOMAIN custom_weights # {}
    THEN _validate_and_normalize_weights(custom_weights)
    ELSE [error |-> "none", weights |-> default_score_factors, total |-> 10000]

base_min_score == 200
base_max_score == 1000

----------------------------------------------------------------------------
(* DynamicCibilScoreCalculator: the five factor scorers (h is the stored   *)
(* history of self.customer)                                               *)

\* Variant: the payment score without max(0, .).
PaymentScoreUnclamped(h) ==
    LET payments == h.payment_history
        points ==
            100 * Count(payments, {r \in DOMAIN payments : r.payment_status = "ON_TIME"})
            - 30 * Count(payments, {r \in DOMAIN payments : r.payment_status \in LateStatuses})
            - 50 * Count(payments, {r \in DOMAIN payments : r.payment_status \in MissedStatuses})
    IN  IF Total(payments) = 0 THEN 5000 ELSE (100 * points) \div Total(payments)

\* Variant: a missed payment costs 60 points, not 50.
PaymentScoreHarsher(h) ==
    LET payments == h.payment_history
        points ==
            100 * Count(payments, {r \in DOMAIN payments : r.payment_status = "ON_TIME"})
            - 30 * Count(payments, {r \in DOMAIN payments : r.payment_status \in LateStatuses})
            - 60 * Count(payments, {r \in DOMAIN payments : r.payment_status \in MissedStatuses})
    IN  IF Total(payments) = 0 THEN 5000
        ELSE IF points <= 0 THEN 0
        ELSE RoundDiv(100 * points, Total(payments))

\* Variant: the on-time and the late counts taken for each other.
PaymentScoreSwapped(h) ==
    LET payments == h.payment_history
        points ==
            100 * Count(payments, {r \in DOMAIN payments : r.payment_status \in LateStatuses})
            - 30 * Count(payments, {r \in DOMAIN payments : r.payment_status = "ON_TIME"})
            - 50 * Count(payments, {r \in DOMAIN payments : r.payment_status \in MissedStatuses})
    IN  IF Total(payments) = 0 THEN 5000
        ELSE IF points <= 0 THEN 0
        ELSE RoundDiv(100 * points, Total(payments))

_calculate_payment_history_score(h) ==
    LET payments == h.payment_history
        total_payments == Total(payments)
        on_time_payments ==
            Count(payments, {r \in DOMAIN payments : r.payment_status = "ON_TIME"})
        late_payments ==
            Count(payments, {r \in DOMAIN payments : r.payment_status \in LateStatuses})
        missed_payments ==
            Count(payments, {r \in DOMAIN payments : r.payment_status \in MissedStatuses})
        \* (base_score - late_penalty - missed_penalty) * total_payments
        points == 100 * on_time_payments - 30 * late_payments - 50 * missed_payments
    IN  IF total_payments = 0 THEN 5000
        ELSE IF points <= 0 THEN 0
        ELSE RoundDiv(100 * points, total_payments)

ActiveCards(h) == {r \in DOMAIN h.credit_cards : r.is_active}

\* Sum('credit_limit') and Sum('current_balance') over the rows of S
SumLimit(h, S) == Total([r \in S |-> h.credit_cards[r] * r.credit_limit])
SumBalance(h, S) == Total([r \in S |-> h.credit_cards[r] * r.current_balance])

\* Variant: the bucket up to 0.50 scores 90.
BucketsOutOfOrder(balance, limit) ==
    IF 100 * balance <= 5 * limit THEN 9500
    ELSE IF 100 * balance <= 10 * limit THEN 10000
    ELSE IF 100 * balance <= 30 * limit THEN 8500
    ELSE IF 100 * balance <= 50 * limit THEN 9000
    ELSE IF 100 * balance <= 70 * limit THEN 4500
    ELSE IF 100 * balance <= 90 * limit THEN 2500
    ELSE 1000

\* the bucket of utilization_ratio = balance / limit
UtilizationBucket(balance, limit) ==
    IF 100 * balance <= 5 * limit THEN 9500
    ELSE IF 100 * balance <= 10 * limit THEN 10000
    ELSE IF 100 * balance <= 30 * limit THEN 8500
    ELSE IF 100 * balance <= 50 * limit THEN 6500
    ELSE IF 100 * balance <= 70 * limit THEN 4500
    ELSE IF 100 * balance <= 90 * limit THEN 2500
    ELSE 1000

\* Variant: the cards that are not active are counted too.
UtilizationOverAllCards(h) ==
    LET credit_cards == DOMAIN h.credit_cards
        total_limit == SumLimit(h, credit_cards)
        total_balance == SumBalance(h, credit_cards)
    IN  IF Count(h.credit_cards, credit_cards) = 0 THEN 7000
        ELSE IF total_limit = 0 THEN 7000
        ELSE UtilizationBucket(total_balance, total_limit)

_calculate_credit_utilization_score(h) ==
    LET credit_cards == ActiveCards(h)
        total_limit == SumLimit(h, credit_cards)
        total_balance == SumBalance(h, credit_cards)
    IN  IF Count(h.credit_cards, credit_cards) = 0 THEN 7000
        ELSE IF total_limit = 0 THEN 7000
        ELSE UtilizationBucket(total_balance, total_limit)

\* the ages in days of the oldest loan, card and bank account
oldest_dates(h) ==
    {r.loan_start_date : r \in Rows(h.loans)}
    \cup {r.card_issued_date : r \in Rows(h.credit_cards)}
    \cup {r.account_opened_date : r \in Rows(h.bank_accounts)}

\* min(oldest_dates) is the date furthest back
OldestDays(h) == CHOOSE d \in oldest_dates(h) : \A e \in oldest_dates(h) : e <= d

\* Variant: a year of 365 days.
AtLeastYearsOf365(days, years) == days >= 365 * years

\* days / 365.25 >= years
AtLeastYears(days, years) == 4 * days >= 1461 * years

_calculate_credit_history_length_score(h) ==
    IF oldest_dates(h) = {} THEN 3000
    ELSE LET days == OldestDays(h)
         IN  IF AtLeastYears(days, 10) THEN 10000
             ELSE IF AtLeastYears(days, 7) THEN 8500
             ELSE IF AtLeastYears(days, 5) THEN 7000
             ELSE IF AtLeastYears(days, 3) THEN 5500
             ELSE IF AtLeastYears(days, 1) THEN 4000
             ELSE 2500

\* Variant: the loan types of the loans of any status.
LoanTypesOfAnyStatus(h) == {r.loan_type : r \in Rows(h.loans)}

\* set(Loan.objects.filter(status='ACTIVE').values_list('loan_type'))
ActiveLoanTypes(h) == {r.loan_type : r \in {x \in Rows(h.loans) : x.status = "ACTIVE"}}

has_credit_cards(h) == Count(h.credit_cards, ActiveCards(h)) > 0
has_bank_accounts(h) ==
    Count(h.bank_accounts, {r \in DOMAIN h.bank_accounts : r.is_active}) > 0

_calculate_credit_mix_score(h) ==
    LET loan_types == ActiveLoanTypes(h)
        credit_mix_score ==
            (IF has_credit_cards(h) THEN 30 ELSE 0)
            + (IF has_bank_accounts(h) THEN 20 ELSE 0)
            + (IF "HOME_LOAN" \in loan_types THEN 25 ELSE 0)
            + (IF "CAR_LOAN" \in loan_types THEN 15 ELSE 0)
            + (IF "PERSONAL_LOAN" \in loan_types THEN 10 ELSE 0)
    IN  100 * Min(100, credit_mix_score)

\* created_at >= now - 180 days
RecentlyCreated(r) == r.created_at <= 180

\* Variant: the recent cards are not counted.
NewCreditOfLoansOnly(h) ==
    LET total_recent_accounts == Count(h.loans, {r \in DOMAIN h.loans : RecentlyCreated(r)})
    IN  IF total_recent_accounts = 0 THEN 10000
        ELSE IF total_recent_accounts = 1 THEN 8000
        ELSE IF total_recent_accounts = 2 THEN 6000
        ELSE IF total_recent_accounts <= 4 THEN 4000
        ELSE 2000

_calculate_new_credit_score(h) ==
    LET recent_loans == Count(h.loans, {r \in DOMAIN h.loans : RecentlyCreated(r)})
        recent_cards ==
            Count(h.credit_cards, {r \in DOMAIN h.credit_cards : RecentlyCreated(r)})
        total_recent_accounts == recent_loans + recent_cards
    IN  IF total_recent_accounts = 0 THEN 10000
        ELSE IF total_recent_accounts = 1 THEN 8000
        ELSE IF total_recent_accounts = 2 THEN 6000
        ELSE IF total_recent_accounts <= 4 THEN 4000
        ELSE 2000

factor_scores(h) ==
    [payment_history |-> _calculate_payment_history_score(h),
     credit_utilization |-> _calculate_credit_utilization_score(h),
     credit_history_length |-> _calculate_credit_history_length_score(h),
     credit_mix |-> _calculate_credit_mix_score(h),
     new_credit |-> _calculate_new_credit_score(h)]

----------------------------------------------------------------------------
(* DynamicCibilScoreCalculator: helper methods *)

_get_total_credit_limit(h) == SumLimit(h, ActiveCards(h))

_get_account_diversity_score(h) ==
    LET score ==
            (IF has_credit_cards(h) THEN 25 ELSE 0)
            + Cardinality(ActiveLoanTypes(h)) * 15
            + (IF has_bank_accounts(h) THEN 20 ELSE 0)
    IN  Min(100, score)

\* consistency_ratio * 100 as the pair <<on_time_payments, total_payments>>,
\* or <<1, 2>> (50.0) when fewer than 3 payments are recent; payment_date is
\* compared with now - 180 days
_get_payment_consistency_score(h) ==
    LET recent_payments == {r \in DOMAIN h.payment_history : r.payment_date <= 180}
        total_payments == Count(h.payment_history, recent_payments)
        on_time_payments ==
            Count(h.payment_history,
                  {r \in recent_payments : r.payment_status = "ON_TIME"})
    IN  IF total_payments < 3 THEN <<1, 2>> ELSE <<on_time_payments, total_payments>>

_get_credit_growth_score(h) ==
    LET current_limit == _get_total_credit_limit(h)
        \* created_at <= now - 365 days, active or not
        old_cards ==
            SumLimit(h, {r \in DOMAIN h.credit_cards : r.created_at >= 365})
        \* growth_rate = (current_limit - old_cards) / old_cards
        growth == current_limit - old_cards
    IN  IF old_cards > 0
        THEN IF 10 * old_cards <= 100 * growth /\ 100 * growth <= 50 * old_cards
             THEN 85
             ELSE IF (5 * old_cards <= 100 * growth /\ 100 * growth < 10 * old_cards)
                     \/ (50 * old_cards < 100 * growth /\ 100 * growth <= 80 * old_cards)
             THEN 70
             ELSE 50
        ELSE 60

\* the age in days of the oldest account, 0 when there is none
_get_credit_age_years(h) == IF oldest_dates(h) = {} THEN 0 ELSE OldestDays(h)

----------------------------------------------------------------------------
(* DynamicCibilScoreCalculator: behavioral adjustments *)

\* Variant: a penalty of 0.70 whatever the cards are.
FlatPenalty(h) == 70

\* Variant: the penalty is decided by the limit alone.
PenaltyByLimitAlone(h) ==
    LET credit_cards == ActiveCards(h)
        total_limit == SumLimit(h, credit_cards)
    IN  IF Count(h.credit_cards, credit_cards) = 0 THEN 100
        ELSE IF total_limit > 100000 THEN 85
        ELSE IF total_limit > 50000 THEN 92
        ELSE IF total_limit > 25000 THEN 95
        ELSE 100

_get_underutilization_penalty(h) ==
    LET credit_cards == ActiveCards(h)
        total_limit == SumLimit(h, credit_cards)
        total_balance == SumBalance(h, credit_cards)
    IN  IF Count(h.credit_cards, credit_cards) = 0 THEN 100
        ELSE IF total_limit > 0
        THEN IF 100 * total_balance < 5 * total_limit /\ total_limit > 100000 THEN 85
             ELSE IF 100 * total_balance < 2 * total_limit /\ total_limit > 50000 THEN 92
             ELSE IF 100 * total_balance < 1 * total_limit /\ total_limit > 25000 THEN 95
             ELSE 100
        ELSE 100

_get_credit_diversity_adjustment(h) ==
    LET diversity_score == _get_account_diversity_score(h)
    IN  IF diversity_score >= 80 THEN 105
        ELSE IF diversity_score >= 60 THEN 102
        ELSE IF diversity_score < 30 THEN 95
        ELSE 100

_get_payment_consistency_adjustment(h) ==
    LET consistency_score == _get_payment_consistency_score(h)
        on == consistency_score[1]
        total == consistency_score[2]
    IN  IF 100 * on >= 90 * total THEN 103
        ELSE IF 100 * on >= 75 * total THEN 101
        ELSE IF 100 * on < 50 * total THEN 97
        ELSE 100

_get_credit_growth_adjustment(h) ==
    LET growth_score == _get_credit_growth_score(h)
    IN  IF 70 <= growth_score /\ growth_score <= 85 THEN 102
        ELSE IF growth_score > 90 \/ growth_score < 30 THEN 98
        ELSE 100

\* round(multiplier, 4) of the product of four doubles.  The decimal
\* products that end in exactly 5 at the fifth decimal (0.91035, 0.79135,
\* 0.97755, 0.92055) are doubles just below the half, which round() takes
\* down; every other product rounds to the nearest.
RoundMultiplier(product) ==
    IF product % 10000 > 5000 THEN product \div 10000 + 1 ELSE product \div 10000

\* Variant: the growth adjustment is left out of the product.
AdjustmentsWithoutGrowth(h) ==
    RoundMultiplier(_get_underutilization_penalty(h)
                    * _get_credit_diversity_adjustment(h)
                    * _get_payment_consistency_adjustment(h)
                    * 100)

_get_behavioral_adjustments(h) ==
    RoundMultiplier(_get_underutilization_penalty(h)
                    * _get_credit_diversity_adjustment(h)
                    * _get_payment_consistency_adjustment(h)
                    * _get_credit_growth_adjustment(h))

----------------------------------------------------------------------------
(* DynamicCibilScoreCalculator: dynamic range *)

MaturityIncrement(days) ==
    IF AtLeastYears(days, 10) THEN 20
    ELSE IF AtLeastYears(days, 5) THEN 10
    ELSE IF ~AtLeastYears(days, 1) THEN 0 - 10
    ELSE 0

ExposureIncrement(total_credit_limit) ==
    IF total_credit_limit > 500000 THEN 15
    ELSE IF total_credit_limit > 100000 THEN 5
    ELSE IF total_credit_limit < 25000 THEN 0 - 5
    ELSE 0

DiversityIncrement(account_diversity) ==
    IF account_diversity >= 80 THEN 10
    ELSE IF account_diversity < 40 THEN 0 - 5
    ELSE 0

\* int(self.base_min_score - range_expansion/2) in double arithmetic.  For
\* these sums 1.0 + a + b + c the double (range_multiplier - 1) lies above
\* the decimal value, base_min_score - range_expansion/2 falls just below
\* an integer and int() gives one less than the decimal arithmetic does
\* (1.0 + 0.1 gives 200 - 40.00000000000004, truncated to 159).
\* int(self.base_max_score + range_expansion/2) is the decimal value for
\* every sum.
TruncationLoss(a, b, c) ==
    IF <<a, b, c>> \in
        {<<10, 5, 0 - 5>>, <<10, 0, 0>>, <<10, 0, 0 - 5>>, <<10, 0 - 5, 0>>,
         <<0, 5, 0>>, <<0, 0, 10>>, <<0, 0 - 5, 10>>, <<0 - 10, 15, 0>>,
         <<0 - 10, 5, 10>>, <<0 - 10, 5, 0>>}
    THEN 1 ELSE 0

\* Variant: dynamic_min without the floor of 150.
UnclampedMin(half_expansion, loss) == base_min_score - half_expansion - loss

DynamicMin(half_expansion, loss) == Max(150, base_min_score - half_expansion - loss)
DynamicMax(half_expansion) == Min(1200, base_max_score + half_expansion)

_calculate_dynamic_score_range(h) ==
    LET a == MaturityIncrement(_get_credit_age_years(h))
        b == ExposureIncrement(_get_total_credit_limit(h))
        c == DiversityIncrement(_get_account_diversity_score(h))
        range_multiplier == 100 + a + b + c
        \* range_expansion / 2, range_expansion = (max - min) * (multiplier - 1)
        half_expansion ==
            ((base_max_score - base_min_score) * (range_multiplier - 100)) \div 200
        dynamic_min == DynamicMin(half_expansion, TruncationLoss(a, b, c))
        dynamic_max == DynamicMax(half_expansion)
    IN  [min_score |-> dynamic_min,
         max_score |-> dynamic_max,
         range_multiplier |-> 10 * range_multiplier,
         range_width |-> dynamic_max - dynamic_min]

----------------------------------------------------------------------------
(* DynamicCibilScoreCalculator: conversion to the dynamic scale *)

\* power_score of _convert_to_dynamic_scale in 1/10^9, for normalized_score
\* = i / 10000, i = 0 .. 10000 (entry i + 1): with sigmoid_score =
\* 1 / (1 + exp(-8 * (normalized_score - 0.5))) it is pow(sigmoid_score, 1.2)
\* below 0.5 and pow(sigmoid_score, 0.9) from 0.5 on, rounded down.
SigmoidPowerTable == <<8052441,8060036,8067638,8075247,8082863,8090486,8098116,8105753,8113398,8121049,8128708,8136373,8144046,8151726,8159413,8167107,8174809,8182517,8190233,8197955,8205685,8213422,8221167,8228918,8236677,8244443,8252216,8259996,8267784,8275578,8283380,8291190,8299006,8306830,8314661,8322499,8330345,8338197,8346058,8353925,8361800,8369682,8377571,8385468,8393372,8401283,8409201,8417127,8425061,8433001,8440949,8448905,8456868,8464838,8472815,8480800,8488793,8496792,8504800,8512814,8520836,8528866,8536903,8544947,8552999,8561058,8569125,8577199,8585281,8593370,8601467,8609571,8617683,8625803,8633929,8642064,8650206,8658355,8666512,8674676,8682849,8691028,8699216,8707410,8715613,8723823,8732040,8740266,8748499,8756739,8764987,8773243,8781507,8789778,8798056,8806343,8814637,8822939,8831248,8839565,8847890,8856223,8864563,8872911,8881267,8889630,8898002,8906381,8914767,8923162,8931564,8939974,8948392,8956818,8965251,8973692,8982141,8990598,8999063,9007536,9016016,9024504,9033000,9041504,9050016,9058536,9067063,9075599,9084142,9092694,9101253,9109820,9118395,9126978,9135569,9144168,9152775,9161390,9170012,9178643,9187282,9195929,9204583,9213246,9221917,9230596,9239282,9247977,9256680,9265391,9274110,9282837,9291572,9300315,9309067,9317826,9326593,9335369,9344153,9352944,9361744,9370552,9379369,9388193,9397026,9405866,9414715,9423572,9432437,9441311,9450192,9459082,9467980,9476887,9485801,9494724,9503655,9512594,9521542,9530497,9539461,9548434,9557414,9566403,9575400,9584406,9593420,9602442,9611473,9620511,9629559,9638614,9647678,9656750,9665831,9674920,9684018,9693123,9702238,9711360,9720491,9729631,9738779,9747935,9757100,9766274,9775455,9784646,9793845,9803052,9812268,9821492,9830725,9839966,9849216,9858474,9867741,9877016,9886301,9895593,9904894,9914204,9923522,9932849,9942185,9951529,9960882,9970243,9979613,9988992,9998379,10007775,10017180,10026593,10036015,10045446,10054886,10064334,10073791,10083256,10092730,10102214,10111705,10121206,10130715,10140233,10149760,10159296,10168840,10178393,10187955,10197526,10207106,10216694,10226292,10235898,10245513,10255137,10264770,10274411,10284062,10293721,10303389,10313067,10322753,10332448,10342152,10351865,10361587,10371318,10381057,10390806,10400564,10410331,10420107,10429891,10439685,10449488,10459300,10469121,10478951,10488790,10498638,10508495,10518361,10528236,10538120,10548014,10557917,10567828,10577749,10587679,10597618,10607566,10617524,10627490,10637466,10647451,10657445,10667448,10677461,10687483,10697514,10707554,10717603,10727662,10737730,10747807,10757893,10767989,10778094,10788209,10798332,10808465,10818608,10828759,10838920,10849090,10859270,10869459,10879657,10889865,10900082,10910309,10920545,10930790,10941045,10951309,10961583,10971866,10982159,10992461,11002772,11013093,11023423,11033763,11044113,11054472,11064840,11075218,11085606,11096003,11106410,11116826,11127252,11137687,11148132,11158587,11169051,11179525,11190008,11200501,11211004,11221516,11232038,11242570,11253111,11263662,11274223,11284793,11295374,11305963,11316563,11327172,11337791,11348420,11359059,11369707,11380365,11391033,11401711,11412398,11423095,11433803,11444520,11455246,11465983,11476729,11487486,11498252,11509028,11519814,11530610,11541416,11552232,11563057,11573893,11584738,11595594,11606459,11617335,11628220,11639115,11650021,11660936,11671862,11682797,11693742,11704698,11715663,11726639,11737625,11748620,11759626,11770642,11781668,11792704,11803750,11814807,11825873,11836950,11848037,11859134,11870241,11881358,11892486,11903623,11914771,11925929,11937098,11948276,11959465,11970664,11981873,11993093,12004323,12015563,12026814,12038074,12049346,12060627,12071919,12083221,12094533,12105856,12117189,12128533,12139887,12151251,12162626,12174011,12185407,12196813,12208230,12219656,12231094,12242542,12254000,12265469,12276948,12288438,12299939,12311450,12322971,12334503,12346046,12357599,12369162,12380737,12392321,12403917,12415523,12427140,12438767,12450405,12462054,12473713,12485383,12497063,12508755,12520457,12532169,12543893,12555627,12567372,12579127,12590894,12602671,12614459,12626257,12638067,12649887,12661718,12673560,12685413,12697276,12709151,12721036,12732932,12744839,12756757,12768685,12780625,12792576,12804537,12816510,12828493,12840487,12852492,12864509,12876536,12888574,12900623,12912683,12924755,12936837,12948930,12961034,12973150,12985276,12997414,13009562,13021722,13033893,13046075,13058268,13070472,13082687,13094914,13107151,13119400,13131660,13143931,13156214,13168507,13180812,13193128,13205455,13217794,13230144,13242505,13254877,13267261,13279656,13292062,13304480,13316908,13329349,13341800,13354263,13366737,13379223,13391720,13404229,13416748,13429280,13441822,13454377,13466942,13479519,13492108,13504708,13517319,13529942,13542577,13555223,13567880,13580549,13593230,13605922,13618626,13631341,13644068,13656807,13669557,13682318,13695092,13707877,13720674,13733482,13746302,13759133,13771977,13784832,13797699,13810577,13823467,13836369,13849283,13862208,13875146,13888095,13901055,13914028,13927012,13940009,13953017,13966037,13979068,13992112,14005167,14018235,14031314,14044405,14057508,14070623,14083750,14096889,14110040,14123203,14136378,14149564,14162763,14175974,14189197,14202432,14215678,14228937,14242208,14255491,14268786,14282094,14295413,14308744,14322088,14335444,14348812,14362191,14375584,14388988,14402404,14415833,14429274,14442727,14456193,14469670,14483160,14496662,14510176,14523703,14537242,14550793,14564357,14577933,14591521,14605121,14618734,14632360,14645997,14659647,14673310,14686985,14700672,14714372,14728084,14741808,14755545,14769295,14783057,14796831,14810618,14824418,14838230,14852054,14865892,14879741,14893604,14907478,14921366,14935266,14949179,14963104,14977042,14990992,15004955,15018931,15032920,15046921,15060935,15074962,15089001,15103053,15117118,15131196,15145286,15159389,15173505,15187634,15201776,15215930,15230097,15244277,15258470,15272676,15286895,15301126,15315371,15329628,15343898,15358181,15372478,15386787,15401109,15415444,15429792,15444153,15458527,15472914,15487314,15501727,15516153,15530593,15545045,15559510,15573989,15588481,15602985,15617503,15632034,15646578,15661136,15675706,15690290,15704887,15719497,15734121,15748757,15763407,15778070,15792746,15807436,15822139,15836855,15851585,15866328,15881084,15895854,15910637,15925433,15940243,15955066,15969902,15984752,15999616,16014492,16029383,16044286,16059203,16074134,16089078,16104036,16119007,16133992,16148990,16164002,16179027,16194066,16209119,16224185,16239265,16254358,16269465,16284586,16299721,16314869,16330030,16345206,16360395,16375598,16390814,16406045,16421289,16436547,16451818,16467104,16482403,16497716,16513043,16528383,16543738,16559106,16574489,16589885,16605295,16620719,16636157,16651609,16667074,16682554,16698048,16713555,16729077,16744613,16760162,16775726,16791304,16806896,16822502,16838121,16853756,16869404,16885066,16900742,16916433,16932137,16947856,16963589,16979336,16995098,17010873,17026663,17042467,17058285,17074118,17089964,17105826,17121701,17137591,17153494,17169413,17185345,17201292,17217254,17233229,17249220,17265224,17281243,17297276,17313324,17329387,17345463,17361554,17377660,17393780,17409915,17426064,17442228,17458406,17474599,17490807,17507029,17523265,17539516,17555782,17572063,17588358,17604668,17620992,17637331,17653685,17670054,17686437,17702835,17719248,17735675,17752118,17768575,17785047,17801534,17818035,17834551,17851083,17867629,17884190,17900765,17917356,17933962,17950582,17967218,17983868,18000534,18017214,18033910,18050620,18067345,18084086,18100841,18117612,18134397,18151198,18168014,18184844,18201690,18218551,18235428,18252319,18269226,18286147,18303084,18320036,18337004,18353986,18370984,18387997,18405025,18422069,18439128,18456202,18473291,18490396,18507516,18524652,18541803,18558969,18576151,18593348,18610560,18627788,18645032,18662291,18679565,18696855,18714160,18731481,18748817,18766169,18783537,18800920,18818318,18835733,18853162,18870608,18888069,18905546,18923038,18940546,18958070,18975609,18993164,19010735,19028322,19045924,19063542,19081176,19098826,19116491,19134173,19151870,19169583,19187311,19205056,19222817,19240593,19258386,19276194,19294018,19311858,19329714,19347587,19365475,19383379,19401299,19419235,19437187,19455156,19473140,19491140,19509157,19527189,19545238,19563303,19581384,19599481,19617595,19635724,19653870,19672032,19690210,19708405,19726616,19744843,19763086,19781345,19799621,19817914,19836222,19854547,19872888,19891246,19909620,19928011,19946418,19964841,19983281,20001737,20020210,20038699,20057205,20075727,20094266,20112821,20131393,20149982,20168587,20187208,20205847,20224502,20243173,20261861,20280566,20299288,20318026,20336781,20355553,20374341,20393147,20411969,20430807,20449663,20468535,20487424,20506330,20525253,20544193,20563150,20582123,20601114,20620121,20639145,20658187,20677245,20696320,20715412,20734522,20753648,20772791,20791951,20811129,20830323,20849535,20868763,20888009,20907272,20926552,20945849,20965164,20984495,21003844,21023210,21042593,21061994,21081412,21100847,21120299,21139769,21159256,21178760,21198282,21217821,21237377,21256951,21276542,21296151,21315777,21335420,21355081,21374760,21394456,21414169,21433900,21453649,21473415,21493198,21512999,21532818,21552655,21572509,21592380,21612270,21632177,21652101,21672044,21692004,21711982,21731977,21751991,21772022,21792071,21812137,21832222,21852324,21872444,21892582,21912738,21932912,21953104,21973313,21993541,22013786,22034050,22054331,22074630,22094948,22115283,22135637,22156008,22176398,22196806,22217231,22237675,22258137,22278617,22299116,22319632,22340167,22360720,22381291,22401880,22422488,22443113,22463757,22484420,22505100,22525799,22546517,22567252,22588007,22608779,22629570,22650379,22671207,22692053,22712917,22733800,22754702,22775622,22796560,22817517,22838493,22859487,22880500,22901531,22922581,22943650,22964737,22985843,23006967,23028111,23049272,23070453,23091652,23112871,23134107,23155363,23176637,23197931,23219243,23240574,23261923,23283292,23304679,23326086,23347511,23368955,23390419,23411901,23433402,23454922,23476461,23498019,23519596,23541193,23562808,23584442,23606096,23627768,23649460,23671171,23692901,23714650,23736419,23758206,23780013,23801839,23823685,23845549,23867433,23889336,23911259,23933201,23955162,23977143,23999143,24021162,24043201,24065259,24087337,24109434,24131550,24153686,24175842,24198017,24220212,24242426,24264660,24286913,24309186,24331479,24353791,24376123,24398475,24420846,24443237,24465647,24488078,24510528,24532998,24555488,24577997,24600526,24623075,24645644,24668233,24690842,24713471,24736119,24758787,24781476,24804184,24826912,24849661,24872429,24895217,24918026,24940854,24963703,24986571,25009460,25032369,25055298,25078247,25101216,25124205,25147215,25170245,25193295,25216365,25239456,25262567,25285698,25308849,25332021,25355213,25378426,25401659,25424912,25448186,25471480,25494794,25518130,25541485,25564861,25588258,25611675,25635112,25658571,25682049,25705549,25729069,25752609,25776170,25799752,25823355,25846978,25870622,25894287,25917972,25941679,25965406,25989153,26012922,26036711,26060522,26084353,26108205,26132078,26155971,26179886,26203822,26227779,26251756,26275755,26299774,26323815,26347877,26371960,26396063,26420188,26444334,26468502,26492690,26516900,26541130,26565382,26589655,26613950,26638265,26662602,26686960,26711340,26735740,26760162,26784606,26809071,26833557,26858064,26882593,26907144,26931716,26956309,26980924,27005560,27030218,27054898,27079599,27104321,27129065,27153831,27178619,27203428,27228258,27253111,27277985,27302881,27327798,27352737,27377698,27402681,27427686,27452712,27477760,27502830,27527922,27553036,27578172,27603330,27628509,27653711,27678934,27704180,27729447,27754737,27780049,27805382,27830738,27856116,27881516,27906938,27932382,27957849,27983337,28008848,28034381,28059936,28085514,28111113,28136735,28162380,28188046,28213735,28239447,28265181,28290937,28316715,28342516,28368340,28394186,28420054,28445945,28471858,28497794,28523753,28549734,28575737,28601764,28627813,28653884,28679978,28706095,28732235,28758397,28784582,28810790,28837020,28863274,28889550,28915849,28942171,28968515,28994883,29021273,29047686,29074123,29100582,29127064,29153569,29180098,29206649,29233223,29259820,29286441,29313084,29339751,29366440,29393153,29419889,29446649,29473431,29500237,29527065,29553918,29580793,29607692,29634614,29661559,29688528,29715520,29742535,29769574,29796636,29823722,29850831,29877964,29905120,29932300,29959503,29986730,30013980,30041254,30068552,30095873,30123217,30150586,30177978,30205394,30232833,30260297,30287784,30315295,30342829,30370388,30397970,30425576,30453206,30480860,30508537,30536239,30563965,30591714,30619488,30647285,30675107,30702953,30730822,30758716,30786634,30814576,30842542,30870532,30898546,30926585,30954648,30982734,31010846,31038981,31067141,31095325,31123533,31151766,31180023,31208305,31236610,31264941,31293295,31321674,31350078,31378506,31406959,31435436,31463937,31492464,31521014,31549590,31578190,31606814,31635464,31664138,31692836,31721560,31750308,31779081,31807878,31836701,31865548,31894420,31923317,31952239,31981186,32010157,32039154,32068175,32097222,32126293,32155390,32184511,32213658,32242829,32272026,32301247,32330494,32359766,32389064,32418386,32447733,32477106,32506504,32535927,32565376,32594850,32624349,32653873,32683423,32712998,32742599,32772225,32801876,32831553,32861256,32890983,32920737,32950516,32980320,33010150,33040006,33069887,33099794,33129726,33159684,33189668,33219677,33249713,33279774,33309860,33339973,33370111,33400276,33430466,33460681,33490923,33521191,33551484,33581804,33612149,33642521,33672918,33703342,33733791,33764267,33794769,33825297,33855850,33886430,33917037,33947669,33978328,34009013,34039724,34070461,34101225,34132014,34162831,34193673,34224542,34255437,34286359,34317307,34348282,34379283,34410310,34441365,34472445,34503552,34534686,34565846,34597033,34628246,34659487,34690753,34722047,34753367,34784714,34816087,34847488,34878915,34910369,34941850,34973358,35004892,35036454,35068042,35099657,35131299,35162969,35194665,35226388,35258138,35289915,35321720,35353551,35385410,35417295,35449208,35481148,35513115,35545110,35577131,35609180,35641257,35673360,35705491,35737649,35769834,35802047,35834288,35866555,35898850,35931173,35963523,35995901,36028306,36060738,36093199,36125687,36158202,36190745,36223316,36255914,36288540,36321194,36353875,36386585,36419322,36452086,36484879,36517700,36550548,36583424,36616328,36649260,36682220,36715208,36748224,36781268,36814340,36847440,36880568,36913724,36946908,36980121,37013361,37046630,37079927,37113252,37146605,37179987,37213397,37246835,37280301,37313796,37347319,37380871,37414451,37448059,37481696,37515362,37549055,37582778,37616529,37650308,37684116,37717952,37751818,37785711,37819634,37853585,37887565,37921574,37955611,37989677,38023772,38057896,38092048,38126230,38160440,38194679,38228947,38263244,38297570,38331925,38366309,38400722,38435164,38469635,38504135,38538664,38573223,38607810,38642427,38677073,38711748,38746452,38781186,38815949,38850741,38885563,38920414,38955294,38990204,39025143,39060111,39095109,39130136,39165193,39200280,39235396,39270541,39305717,39340921,39376156,39411420,39446713,39482037,39517390,39552773,39588185,39623628,39659100,39694602,39730134,39765696,39801287,39836909,39872560,39908242,39943953,39979695,40015466,40051267,40087099,40122961,40158852,40194774,40230726,40266709,40302721,40338764,40374837,40410940,40447073,40483237,40519431,40555655,40591910,40628195,40664511,40700857,40737234,40773641,40810078,40846546,40883045,40919574,40956134,40992725,41029346,41065997,41102680,41139393,41176137,41212911,41249717,41286553,41323420,41360318,41397247,41434206,41471197,41508218,41545271,41582354,41619469,41656614,41693791,41730998,41768237,41805507,41842807,41880140,41917503,41954897,41992323,42029780,42067268,42104788,42142338,42179921,42217534,42255179,42292855,42330563,42368302,42406073,42443875,42481709,42519574,42557471,42595399,42633359,42671351,42709374,42747429,42785516,42823634,42861784,42899966,42938180,42976426,43014703,43053012,43091354,43129727,43168132,43206569,43245037,43283538,43322071,43360636,43399233,43437863,43476524,43515217,43553943,43592701,43631491,43670313,43709167,43748054,43786973,43825924,43864908,43903924,43942973,43982054,44021167,44060313,44099491,44138702,44177945,44217221,44256529,44295870,44335244,44374650,44414089,44453561,44493065,44532603,44572173,44611775,44651411,44691079,44730780,44770514,44810281,44850081,44889914,44929780,44969679,45009611,45049576,45089574,45129605,45169669,45209766,45249897,45290060,45330257,45370487,45410751,45451047,45491377,45531740,45572137,45612567,45653030,45693527,45734057,45774621,45815218,45855849,45896513,45937211,45977943,46018708,46059506,46100339,46141205,46182104,46223038,46264005,46305006,46346040,46387109,46428211,46469348,46510518,46551722,46592960,46634232,46675538,46716878,46758252,46799660,46841102,46882579,46924089,46965634,47007212,47048825,47090473,47132154,47173870,47215620,47257404,47299223,47341076,47382963,47424885,47466841,47508832,47550857,47592917,47635012,47677140,47719304,47761502,47803735,47846002,47888304,47930641,47973013,48015419,48057860,48100336,48142846,48185392,48227972,48270588,48313238,48355923,48398643,48441398,48484188,48527014,48569874,48612769,48655700,48698666,48741666,48784702,48827774,48870880,48914022,48957199,49000411,49043659,49086942,49130260,49173614,49217003,49260428,49303888,49347384,49390915,49434482,49478084,49521722,49565396,49609105,49652850,49696631,49740447,49784299,49828187,49872111,49916071,49960066,50004097,50048164,50092268,50136407,50180582,50224793,50269040,50313323,50357642,50401997,50446389,50490816,50535280,50579780,50624316,50668888,50713497,50758142,50802823,50847541,50892295,50937085,50981912,51026775,51071675,51116611,51161584,51206593,51251639,51296721,51341840,51386996,51432188,51477417,51522683,51567985,51613324,51658700,51704113,51749563,51795050,51840573,51886133,51931731,51977365,52023036,52068744,52114490,52160272,52206092,52251948,52297842,52343773,52389741,52435746,52481789,52527868,52573985,52620140,52666332,52712561,52758827,52805131,52851472,52897851,52944268,52990721,53037213,53083742,53130308,53176912,53223554,53270234,53316951,53363706,53410498,53457329,53504197,53551103,53598047,53645028,53692048,53739106,53786201,53833334,53880506,53927715,53974963,54022248,54069572,54116934,54164334,54211772,54259248,54306763,54354316,54401907,54449536,54497204,54544910,54592654,54640437,54688258,54736118,54784016,54831953,54879928,54927942,54975994,55024085,55072215,55120383,55168590,55216835,55265120,55313443,55361805,55410205,55458645,55507123,55555641,55604197,55652792,55701426,55750099,55798811,55847563,55896353,55945182,55994050,56042958,56091905,56140891,56189916,56238980,56288084,56337227,56386409,56435631,56484892,56534192,56583532,56632911,56682330,56731789,56781286,56830824,56880401,56930017,56979673,57029369,57079105,57128880,57178695,57228550,57278444,57328379,57378353,57428367,57478421,57528515,57578648,57628822,57679036,57729290,57779583,57829917,57880291,57930705,57981160,58031654,58082189,58132764,58183379,58234034,58284730,58335466,58386242,58437059,58487916,58538814,58589752,58640731,58691750,58742809,58793909,58845050,58896232,58947454,58998716,59050020,59101364,59152749,59204175,59255641,59307148,59358697,59410286,59461915,59513586,59565298,59617051,59668845,59720680,59772556,59824473,59876431,59928430,59980471,60032552,60084675,60136839,60189044,60241291,60293579,60345909,60398279,60450691,60503145,60555640,60608177,60660755,60713374,60766035,60818738,60871482,60924268,60977096,61029965,61082876,61135829,61188824,61241860,61294938,61348058,61401220,61454424,61507670,61560957,61614287,61667659,61721073,61774528,61828026,61881566,61935149,61988773,62042439,62096148,62149899,62203692,62257528,62311406,62365326,62419289,62473294,62527341,62581431,62635564,62689739,62743956,62798216,62852519,62906864,62961252,63015683,63070156,63124672,63179231,63233832,63288477,63343164,63397894,63452667,63507483,63562342,63617243,63672188,63727176,63782207,63837281,63892398,63947558,64002761,64058008,64113297,64168630,64224006,64279426,64334889,64390395,64445944,64501537,64557173,64612853,64668576,64724343,64780153,64836007,64891904,64947845,65003830,65059858,65115930,65172046,65228205,65284408,65340655,65396946,65453281,65509659,65566082,65622548,65679059,65735613,65792211,65848853,65905540,65962270,66019045,66075864,66132727,66189634,66246585,66303581,66360621,66417705,66474833,66532006,66589223,66646485,66703791,66761142,66818537,66875977,66933461,66990989,67048563,67106181,67163843,67221551,67279303,67337099,67394941,67452827,67510758,67568734,67626755,67684821,67742931,67801087,67859288,67917533,67975824,68034159,68092540,68150966,68209437,68267953,68326515,68385121,68443773,68502470,68561213,68620000,68678834,68737712,68796636,68855605,68914620,68973680,69032786,69091938,69151135,69210377,69269665,69328999,69388379,69447804,69507275,69566792,69626354,69685963,69745617,69805317,69865063,69924855,69984693,70044576,70104506,70164482,70224504,70284572,70344686,70404846,70465053,70525305,70585604,70645949,70706341,70766779,70827263,70887793,70948370,71008993,71069663,71130379,71191141,71251950,71312806,71373708,71434657,71495653,71556695,71617784,71678919,71740102,71801331,71862607,71923929,71985299,72046715,72108179,72169689,72231246,72292850,72354501,72416200,72477945,72539738,72601577,72663464,72725398,72787379,72849407,72911483,72973605,73035776,73097993,73160258,73222570,73284930,73347337,73409792,73472294,73534843,73597441,73660086,73722778,73785518,73848306,73911141,73974024,74036955,74099934,74162960,74226035,74289157,74352327,74415545,74478811,74542125,74605486,74668896,74732354,74795860,74859414,74923017,74986667,75050366,75114112,75177908,75241751,75305642,75369582,75433571,75497607,75561692,75625826,75690008,75754238,75818517,75882845,75947221,76011646,76076119,76140641,76205212,76269831,76334499,76399216,76463981,76528796,76593659,76658571,76723532,76788542,76853601,76918709,76983866,77049072,77114327,77179631,77244984,77310387,77375838,77441339,77506889,77572488,77638136,77703834,77769581,77835378,77901224,77967119,78033064,78099058,78165101,78231195,78297337,78363530,78429772,78496063,78562405,78628795,78695236,78761727,78828267,78894857,78961497,79028186,79094926,79161715,79228555,79295444,79362383,79429373,79496412,79563501,79630641,79697831,79765071,79832361,79899701,79967091,80034532,80102023,80169564,80237156,80304798,80372491,80440233,80508027,80575871,80643765,80711710,80779705,80847751,80915848,80983995,81052193,81120442,81188741,81257091,81325492,81393944,81462447,81531000,81599605,81668260,81736966,81805723,81874531,81943391,82012301,82081262,82150275,82219338,82288453,82357619,82426836,82496104,82565424,82634795,82704217,82773691,82843216,82912793,82982420,83052100,83121831,83191613,83261447,83331332,83401270,83471258,83541299,83611391,83681534,83751730,83821977,83892276,83962627,84033030,84103484,84173991,84244549,84315160,84385822,84456536,84527303,84598121,84668992,84739915,84810889,84881916,84952996,85024127,85095311,85166547,85237835,85309175,85380568,85452014,85523511,85595062,85666664,85738320,85810027,85881787,85953600,86025466,86097384,86169355,86241378,86313454,86385583,86457765,86529999,86602286,86674626,86747019,86819465,86891964,86964516,87037121,87109778,87182489,87255253,87328070,87400940,87473863,87546840,87619870,87692952,87766089,87839278,87912521,87985817,88059166,88132569,88206025,88279535,88353098,88426715,88500385,88574108,88647886,88721717,88795601,88869539,88943531,89017577,89091676,89165829,89240036,89314297,89388612,89462980,89537402,89611879,89686409,89760993,89835632,89910324,89985070,90059871,90134725,90209634,90284597,90359614,90434685,90509811,90584991,90660225,90735513,90810856,90886253,90961705,91037211,91112772,91188387,91264056,91339780,91415559,91491392,91567280,91643223,91719220,91795272,91871379,91947540,92023757,92100028,92176354,92252734,92329170,92405661,92482206,92558807,92635462,92712173,92788939,92865759,92942635,93019566,93096552,93173593,93250690,93327842,93405049,93482311,93559629,93637002,93714430,93791914,93869453,93947048,94024698,94102403,94180165,94257981,94335854,94413782,94491765,94569805,94647900,94726050,94804257,94882519,94960837,95039211,95117640,95196126,95274667,95353265,95431918,95510627,95589393,95668214,95747092,95826025,95905015,95984060,96063162,96142321,96221535,96300806,96380133,96459516,96538955,96618451,96698003,96777612,96857277,96936999,97016777,97096611,97176502,97256450,97336454,97416515,97496633,97576807,97657038,97737325,97817670,97898071,97978529,98059044,98139615,98220244,98300929,98381671,98462471,98543327,98624240,98705210,98786238,98867322,98948464,99029662,99110918,99192231,99273601,99355029,99436514,99518056,99599655,99681312,99763026,99844797,99926626,100008513,100090457,100172458,100254517,100336633,100418807,100501039,100583328,100665675,100748080,100830542,100913062,100995640,101078275,101160969,101243720,101326529,101409396,101492321,101575304,101658344,101741443,101824600,101907815,101991088,102074419,102157808,102241255,102324760,102408324,102491946,102575626,102659364,102743161,102827016,102910929,102994901,103078931,103163020,103247167,103331372,103415636,103499959,103584340,103668779,103753278,103837835,103922450,104007124,104091857,104176649,104261499,104346408,104431376,104516403,104601489,104686633,104771837,104857099,104942421,105027801,105113240,105198739,105284296,105369913,105455588,105541323,105627117,105712970,105798882,105884854,105970885,106056975,106143124,106229333,106315601,106401929,106488315,106574762,106661268,106747833,106834458,106921142,107007886,107094689,107181552,107268475,107355457,107442500,107529601,107616763,107703984,107791265,107878606,107966007,108053467,108140988,108228568,108316208,108403908,108491669,108579489,108667369,108755309,108843310,108931370,109019491,109107671,109195912,109284214,109372575,109460997,109549478,109638021,109726623,109815286,109904009,109992793,110081637,110170541,110259506,110348532,110437618,110526764,110615971,110705239,110794567,110883956,110973406,111062916,111152487,111242119,111331812,111421565,111511379,111601254,111691190,111781187,111871244,111961363,112051542,112141783,112232084,112322447,112412870,112503355,112593901,112684507,112775175,112865905,112956695,113047547,113138459,113229433,113320469,113411566,113502724,113593943,113685224,113776566,113867970,113959435,114050961,114142549,114234199,114325910,114417683,114509517,114601413,114693371,114785390,114877471,114969613,115061818,115154084,115246412,115338802,115431253,115523767,115616342,115708979,115801679,115894440,115987263,116080148,116173095,116266104,116359175,116452309,116545504,116638762,116732081,116825463,116918907,117012414,117105982,117199613,117293306,117387062,117480880,117574760,117668702,117762707,117856775,117950905,118045097,118139352,118233669,118328049,118422492,118516997,118611565,118706195,118800888,118895644,118990462,119085344,119180288,119275294,119370364,119465496,119560691,119655949,119751270,119846654,119942101,120037611,120133184,120228819,120324518,120420280,120516105,120611993,120707944,120803958,120900035,120996176,121092380,121188647,121284977,121381371,121477827,121574347,121670931,121767578,121864288,121961062,122057899,122154799,122251763,122348791,122445881,122543036,122640254,122737536,122834881,122932290,123029762,123127298,123224898,123322562,123420289,123518080,123615935,123713854,123811836,123909882,124007993,124106167,124204405,124302706,124401072,124499502,124597996,124696554,124795175,124893861,124992611,125091425,125190303,125289246,125388252,125487323,125586458,125685657,125784920,125884248,125983640,126083096,126182616,126282201,126381851,126481564,126581342,126681185,126781092,126881063,126981099,127081200,127181365,127281594,127381889,127482247,127582671,127683159,127783711,127884329,127985011,128085758,128186569,128287446,128388387,128489393,128590464,128691599,128792800,128894065,128995395,129096791,129198251,129299776,129401366,129503021,129604742,129706527,129808377,129910293,130012273,130114319,130216430,130318606,130420847,130523153,130625525,130727962,130830464,130933032,131035665,131138363,131241126,131343955,131446850,131549809,131652834,131755925,131859081,131962303,132065590,132168942,132272361,132375844,132479394,132583009,132686689,132790435,132894247,132998125,133102068,133206077,133310152,133414293,133518499,133622771,133727109,133831513,133935983,134040518,134145120,134249787,134354520,134459320,134564185,134669116,134774114,134879177,134984306,135089502,135194763,135300091,135405485,135510945,135616471,135722063,135827721,135933446,136039237,136145094,136251018,136357008,136463064,136569186,136675375,136781630,136887952,136994340,137100794,137207315,137313902,137420556,137527276,137634063,137740916,137847836,137954823,138061876,138168995,138276182,138383435,138490754,138598140,138705593,138813113,138920700,139028353,139136073,139243859,139351713,139459633,139567621,139675675,139783795,139891983,140000238,140108560,140216948,140325404,140433926,140542516,140651173,140759896,140868687,140977545,141086469,141195461,141304520,141413646,141522840,141632100,141741428,141850823,141960285,142069814,142179411,142289075,142398806,142508604,142618470,142728403,142838404,142948471,143058607,143168809,143279079,143389417,143499822,143610294,143720834,143831442,143942117,144052859,144163669,144274547,144385492,144496505,144607585,144718733,144829949,144941232,145052583,145164002,145275489,145387043,145498665,145610355,145722112,145833937,145945830,146057791,146169820,146281917,146394081,146506314,146618614,146730982,146843418,146955923,147068495,147181135,147293843,147406619,147519463,147632375,147745355,147858404,147971520,148084705,148197957,148311278,148424667,148538124,148651649,148765243,148878904,148992634,149106432,149220299,149334233,149448236,149562308,149676447,149790655,149904931,150019276,150133689,150248170,150362720,150477338,150592025,150706780,150821603,150936495,151051456,151166485,151281582,151396748,151511983,151627286,151742658,151858098,151973607,152089184,152204831,152320545,152436329,152552181,152668102,152784091,152900150,153016276,153132472,153248737,153365070,153481472,153597943,153714482,153831091,153947768,154064514,154181329,154298213,154415165,154532187,154649277,154766437,154883665,155000963,155118329,155235764,155353269,155470842,155588484,155706195,155823976,155941825,156059744,156177731,156295788,156413914,156532109,156650373,156768706,156887108,157005580,157124121,157242730,157361409,157480158,157598975,157717862,157836818,157955843,158074938,158194102,158313335,158432638,158552009,158671451,158790961,158910541,159030190,159149909,159269697,159389554,159509481,159629477,159749543,159869678,159989883,160110157,160230501,160350914,160471397,160591949,160712570,160833262,160954022,161074853,161195753,161316722,161437761,161558870,161680048,161801296,161922614,162044001,162165458,162286985,162408581,162530247,162651983,162773788,162895664,163017609,163139623,163261708,163383862,163506086,163628380,163750743,163873177,163995680,164118253,164240896,164363608,164486391,164609243,164732166,164855158,164978220,165101352,165224554,165347826,165471168,165594580,165718061,165841613,165965235,166088926,166212688,166336520,166460421,166584393,166708435,166832546,166956728,167080980,167205302,167329694,167454156,167578689,167703291,167827963,167952706,168077518,168202401,168327354,168452377,168577471,168702634,168827868,168953172,169078546,169203990,169329504,169455089,169580744,169706469,169832264,169958130,170084066,170210072,170336149,170462295,170588512,170714800,170841158,170967585,171094084,171220652,171347291,171474001,171600780,171727630,171854551,171981542,172108603,172235734,172362936,172490209,172617552,172744965,172872449,173000003,173127627,173255322,173383088,173510923,173638830,173766807,173894854,174022972,174151160,174279419,174407748,174536148,174664618,174793159,174921771,175050453,175179205,175308028,175436922,175565886,175694921,175824026,175953202,176082449,176211766,176341153,176470612,176600141,176729740,176859410,176989151,177118963,177248845,177378797,177508821,177638915,177769079,177899315,178029621,178159998,178290445,178420963,178551552,178682211,178812941,178943742,179074614,179205556,179336569,179467653,179598807,179730033,179861328,179992695,180124133,180255641,180387220,180518869,180650590,180782381,180914243,181046176,181178179,181310254,181442399,181574615,181706902,181839259,181971688,182104187,182236757,182369397,182502109,182634891,182767745,182900669,183033664,183166729,183299866,183433073,183566352,183699701,183833121,183966612,184100173,184233806,184367509,184501284,184635129,184769045,184903032,185037089,185171218,185305418,185439688,185574029,185708441,185842925,185977478,186112103,186246799,186381566,186516403,186651312,186786291,186921342,187056463,187191655,187326918,187462252,187597657,187733132,187868679,188004297,188139985,188275745,188411575,188547477,188683449,188819492,188955606,189091791,189228047,189364374,189500772,189637241,189773780,189910391,190047073,190183825,190320649,190457543,190594508,190731545,190868652,191005830,191143079,191280399,191417790,191555252,191692785,191830389,191968064,192105809,192243626,192381514,192519472,192657502,192795602,192933774,193072016,193210329,193348713,193487168,193625695,193764292,193902959,194041698,194180508,194319389,194458341,194597363,194736457,194875621,195014857,195154163,195293540,195432989,195572508,195712098,195851759,195991491,196131293,196271167,196411112,196551127,196691214,196831371,196971599,197111899,197252269,197392710,197533222,197673804,197814458,197955183,198095978,198236844,198377782,198518790,198659869,198801019,198942239,199083531,199224894,199366327,199507831,199649406,199791052,199932769,200074557,200216415,200358345,200500345,200642416,200784558,200926770,201069054,201211408,201353833,201496329,201638896,201781534,201924242,202067022,202209872,202352792,202495784,202638847,202781980,202925184,203068458,203211804,203355220,203498707,203642265,203785894,203929593,204073363,204217204,204361115,204505098,204649151,204793274,204937469,205081734,205226070,205370476,205514953,205659501,205804120,205948809,206093569,206238400,206383301,206528273,206673315,206818429,206963612,207108867,207254192,207399588,207545054,207690591,207836199,207981877,208127625,208273445,208419335,208565295,208711326,208857428,209003600,209149843,209296156,209442540,209588994,209735519,209882114,210028780,210175516,210322323,210469200,210616148,210763166,210910255,211057414,211204644,211351944,211499314,211646755,211794266,211941848,212089500,212237223,212385016,212532879,212680813,212828817,212976891,213125036,213273251,213421536,213569892,213718318,213866814,214015380,214164017,214312724,214461502,214610350,214759267,214908256,215057314,215206443,215355641,215504910,215654250,215803659,215953139,216102688,216252308,216401998,216551759,216701589,216851489,217001460,217151501,217301611,217451792,217602043,217752364,217902755,218053216,218203747,218354349,218505020,218655761,218806572,218957453,219108404,219259425,219410516,219561677,219712908,219864208,220015579,220167020,220318530,220470110,220621760,220773480,220925270,221077130,221229059,221381059,221533128,221685267,221837475,221989754,222142102,222294520,222447007,222599564,222752191,222904888,223057654,223210490,223363396,223516371,223669416,223822531,223975715,224128968,224282292,224435684,224589147,224742679,224896280,225049951,225203692,225357501,225511381,225665330,225819348,225973436,226127593,226281819,226436115,226590481,226744915,226899419,227053993,227208635,227363347,227518129,227672979,227827899,227982888,228137946,228293074,228448271,228603537,228758872,228914276,229069749,229225292,229380904,229536585,229692334,229848153,230004041,230159999,230316025,230472120,230628284,230784517,230940819,231097190,231253630,231410139,231566717,231723364,231880079,232036864,232193717,232350639,232507630,232664690,232821819,232979016,233136282,233293617,233451021,233608493,233766034,233923643,234081322,234239069,234396884,234554768,234712721,234870742,235028832,235186991,235345217,235503513,235661877,235820309,235978810,236137379,236296017,236454723,236613497,236772340,236931251,237090231,237249279,237408395,237567579,237726832,237886153,238045542,238204999,238364525,238524118,238683780,238843510,239003308,239163174,239323108,239483111,239643181,239803319,239963526,240123800,240284142,240444552,240605030,240765576,240926190,241086872,241247622,241408439,241569325,241730278,241891298,242052387,242213543,242374767,242536059,242697418,242858845,243020340,243181902,243343532,243505230,243666995,243828827,243990727,244152695,244314730,244476832,244639002,244801239,244963544,245125916,245288355,245450862,245613436,245776077,245938785,246101561,246264404,246427314,246590292,246753336,246916448,247079626,247242872,247406185,247569565,247733012,247896526,248060107,248223754,248387469,248551251,248715099,248879015,249042997,249207046,249371162,249535345,249699594,249863910,250028293,250192743,250357259,250521842,250686491,250851207,251015990,251180839,251345755,251510737,251675786,251840901,252006082,252171330,252336645,252502025,252667472,252832986,252998565,253164211,253329923,253495702,253661546,253827457,253993434,254159477,254325586,254491761,254658002,254824309,254990682,255157121,255323627,255490198,255656834,255823537,255990306,256157140,256324040,256491006,256658038,256825135,256992299,257159527,257326822,257494182,257661607,257829099,257996655,258164278,258331965,258499718,258667537,258835421,259003370,259171385,259339465,259507611,259675821,259844097,260012438,260180845,260349316,260517853,260686454,260855121,261023853,261192650,261361512,261530439,261699431,261868487,262037609,262206795,262376047,262545363,262714744,262884190,263053700,263223275,263392915,263562619,263732388,263902222,264072120,264242083,264412110,264582202,264752358,264922579,265092864,265263213,265433627,265604105,265774647,265945253,266115924,266286659,266457458,266628321,266799248,266970240,267141295,267312414,267483598,267654845,267826156,267997531,268168970,268340473,268512040,268683670,268855364,269027122,269198944,269370829,269542778,269714790,269886866,270059006,270231208,270403475,270575805,270748198,270920655,271093175,271265758,271438405,271611114,271783888,271956724,272129623,272302586,272475611,272648700,272821852,272995067,273168344,273341685,273515088,273688555,273862084,274035676,274209331,274383048,274556829,274730672,274904577,275078546,275252576,275426670,275600826,275775044,275949325,276123668,276298074,276472541,276647072,276821664,276996319,277171036,277345815,277520657,277695560,277870526,278045553,278220643,278395795,278571008,278746284,278921621,279097020,279272482,279448004,279623589,279799235,279974943,280150713,280326544,280502437,280678391,280854407,281030484,281206623,281382823,281559085,281735408,281911792,282088237,282264744,282441312,282617941,282794631,282971382,283148194,283325068,283502002,283678997,283856053,284033170,284210348,284387587,284564886,284742246,284919667,285097148,285274690,285452293,285629956,285807680,285985464,286163309,286341214,286519179,286697205,286875291,287053437,287231644,287409910,287588237,287766624,287945071,288123578,288302145,288480772,288659459,288838206,289017012,289195879,289374805,289553791,289732837,289911942,290091107,290270331,290449615,290628959,290808362,290987824,291167346,291346927,291526567,291706267,291886026,292065844,292245722,292425658,292605654,292785708,292965822,293145994,293326226,293506516,293686865,293867273,294047740,294228265,294408849,294589492,294770194,294950954,295131772,295312649,295493584,295674578,295855631,296036741,296217910,296399137,296580422,296761766,296943167,297124627,297306145,297487720,297669354,297851046,298032795,298214602,298396468,298578390,298760371,298942409,299124505,299306659,299488870,299671138,299853464,300035848,300218289,300400787,300583343,300765955,300948625,301131353,301314137,301496978,301679877,301862832,302045845,302228914,302412040,302595223,302778463,302961760,303145113,303328523,303511990,303695513,303879093,304062730,304246422,304430171,304613977,304797839,304981757,305165732,305349762,305533849,305717992,305902191,306086446,306270757,306455124,306639546,306824025,307008559,307193150,307377796,307562497,307747254,307932067,308116936,308301859,308486839,308671873,308856964,309042109,309227310,309412566,309597877,309783243,309968664,310154141,310339672,310525258,310710900,310896596,311082347,311268152,311454013,311639928,311825898,312011922,312198001,312384135,312570323,312756565,312942862,313129213,313315618,313502077,313688591,313875159,314061781,314248457,314435187,314621971,314808809,314995701,315182646,315369645,315556698,315743805,315930965,316118179,316305447,316492768,316680142,316867570,317055051,317242585,317430173,317617814,317805508,317993255,318181055,318368908,318556814,318744773,318932785,319120850,319308968,319497138,319685361,319873636,320061965,320250345,320438778,320627264,320815802,321004392,321193035,321381730,321570477,321759276,321948127,322137031,322325986,322514993,322704053,322893164,323082326,323271541,323460807,323650125,323839495,324028916,324218389,324407913,324597488,324787115,324976793,325166523,325356303,325546135,325736018,325925952,326115937,326305973,326496060,326686197,326876386,327066625,327256915,327447255,327637647,327828088,328018581,328209123,328399717,328590360,328781054,328971798,329162592,329353436,329544331,329735275,329926270,330117314,330308409,330499553,330690747,330881991,331073284,331264627,331456020,331647462,331838953,332030495,332222085,332413725,332605414,332797152,332988939,333180776,333372662,333564596,333756580,333948612,334140693,334332824,334525002,334717230,334909506,335101831,335294204,335486626,335679096,335871615,336064182,336256797,336449461,336642172,336834932,337027740,337220595,337413499,337606451,337799450,337992498,338185593,338378735,338571926,338765163,338958449,339151782,339345162,339538590,339732065,339925587,340119156,340312773,340506436,340700147,340893905,341087709,341281561,341475459,341669404,341863396,342057434,342251519,342445651,342639829,342834053,343028324,343222641,343417005,343611414,343805870,344000372,344194920,344389514,344584154,344778839,344973571,345168348,345363171,345558040,345752954,345947914,346142920,346337970,346533067,346728208,346923395,347118627,347313904,347509226,347704593,347900005,348095463,348290965,348486511,348682103,348877739,349073420,349269146,349464916,349660730,349856589,350052493,350248440,350444432,350640468,350836548,351032673,351228841,351425053,351621309,351817609,352013953,352210340,352406772,352603246,352799765,352996327,353192932,353389581,353586273,353783008,353979786,354176608,354373473,354570380,354767331,354964325,355161361,355358441,355555563,355752727,355949935,356147185,356344477,356541812,356739189,356936609,357134071,357331575,357529121,357726710,357924340,358122012,358319727,358517483,358715281,358913121,359111002,359308925,359506890,359704896,359902943,360101032,360299162,360497334,360695547,360893801,361092096,361290432,361488809,361687226,361885685,362084185,362282725,362481306,362679927,362878589,363077292,363276035,363474818,363673642,363872506,364071410,364270354,364469338,364668363,364867427,365066531,365265675,365464859,365664082,365863345,366062648,366261990,366461371,366660792,366860253,367059752,367259291,367458869,367658486,367858142,368057837,368257571,368457344,368657155,368857006,369056895,369256822,369456788,369656793,369856836,370056917,370257036,370457194,370657390,370857624,371057896,371258206,371458554,371658940,371859364,372059825,372260324,372460861,372661435,372862047,373062696,373263382,373464106,373664867,373865665,374066500,374267372,374468282,374669228,374870211,375071230,375272287,375473380,375674510,375875676,376076879,376278118,376479393,376680705,376882053,377083437,377284857,377486314,377687806,377889334,378090898,378292498,378494133,378695804,378897511,379099253,379301030,379502843,379704692,379906575,380108494,380310448,380512437,380714461,380916520,381118614,381320742,381522906,381725104,381927336,382129604,382331905,382534241,382736612,382939017,383141456,383343929,383546436,383748978,383951553,384154162,384356805,384559482,384762192,384964936,385167714,385370525,385573370,385776248,385979160,386182104,386385082,386588093,386791137,386994214,387197324,387400467,387603643,387806851,388010092,388213366,388416672,388620010,388823381,389026785,389230220,389433688,389637188,389840720,390044284,390247880,390451508,390655168,390858859,391062582,391266337,391470123,391673941,391877790,392081670,392285582,392489525,392693499,392897504,393101540,393305607,393509705,393713834,393917994,394122184,394326405,394530656,394734938,394939250,395143593,395347966,395552369,395756802,395961266,396165759,396370282,396574835,396779418,396984031,397188673,397393345,397598047,397802778,398007538,398212328,398417147,398621995,398826872,399031778,399236714,399441678,399646671,399851693,400056744,400261823,400466931,400672067,400877232,401082426,401287647,401492897,401698175,401903481,402108815,402314178,402519568,402724985,402930431,403135905,403341406,403546934,403752490,403958074,404163685,404369323,404574988,404780681,404986400,405192147,405397921,405603721,405809548,406015402,406221283,406427191,406633124,406839085,407045072,407251085,407457124,407663189,407869281,408075399,408281543,408487712,408693908,408900129,409106376,409312648,409518947,409725270,409931619,410137994,410344394,410550819,410757269,410963744,411170244,411376769,411583320,411789894,411996494,412203118,412409767,412616441,412823139,413029861,413236607,413443378,413650173,413856992,414063836,414270703,414477594,414684509,414891447,415098410,415305396,415512405,415719438,415926494,416133574,416340677,416547803,416754953,416962125,417169320,417376539,417583780,417791044,417998331,418205640,418412972,418620326,418827703,419035102,419242523,419449967,419657433,419864921,420072430,420279962,420487516,420695091,420902688,421110307,421317948,421525610,421733293,421940998,422148724,422356471,422564239,422772029,422979839,423187670,423395523,423603396,423811290,424019204,424227139,424435095,424643071,424851067,425059084,425267121,425475178,425683255,425891352,426099469,426307606,426515763,426723939,426932136,427140351,427348587,427556841,427765116,427973409,428181722,428390053,428598404,428806774,429015163,429223571,429431997,429640442,429848906,430057389,430265890,430474409,430682947,430891503,431100078,431308670,431517281,431725909,431934556,432143220,432351902,432560602,432769320,432978055,433186808,433395578,433604365,433813170,434021992,434230831,434439687,434648560,434857450,435066357,535886731,536079646,536272554,536465453,536658345,536851229,537044105,537236973,537429833,537622684,537815527,538008362,538201189,538394007,538586817,538779618,538972411,539165195,539357970,539550736,539743494,539936243,540128983,540321714,540514435,540707148,540899852,541092546,541285231,541477906,541670573,541863229,542055877,542248514,542441142,542633761,542826369,543018968,543211557,543404136,543596705,543789264,543981813,544174351,544366880,544559398,544751906,544944403,545136890,545329367,545521833,545714288,545906733,546099166,546291589,546484002,546676403,546868793,547061173,547253541,547445898,547638244,547830579,548022902,548215214,548407514,548599803,548792081,548984347,549176601,549368843,549561074,549753293,549945500,550137695,550329878,550522049,550714208,550906354,551098489,551290611,551482720,551674818,551866903,552058975,552251035,552443082,552635116,552827138,553019147,553211143,553403126,553595096,553787053,553978996,554170927,554362845,554554749,554746640,554938517,555130381,555322232,555514069,555705892,555897702,556089498,556281280,556473048,556664803,556856543,557048270,557239982,557431680,557623364,557815034,558006690,558198331,558389958,558581570,558773168,558964751,559156319,559347873,559539412,559730936,559922446,560113940,560305419,560496884,560688333,560879767,561071186,561262590,561453978,561645351,561836708,562028050,562219377,562410687,562601982,562793262,562984525,563175773,563367005,563558221,563749421,563940605,564131772,564322924,564514059,564705178,564896281,565087367,565278437,565469490,565660527,565851547,566042550,566233537,566424507,566615460,566806396,566997315,567188217,567379102,567569970,567760821,567951654,568142470,568333269,568524050,568714814,568905561,569096289,569287000,569477694,569668369,569859027,570049667,570240289,570430893,570621479,570812047,571002597,571193129,571383642,571574137,571764614,571955072,572145512,572335933,572526335,572716719,572907084,573097431,573287759,573478067,573668357,573858628,574048880,574239113,574429326,574619521,574809696,574999852,575189988,575380105,575570203,575760281,575950339,576140378,576330397,576520396,576710376,576900335,577090275,577280195,577470094,577659974,577849833,578039673,578229492,578419290,578609069,578798826,578988564,579178281,579367977,579557653,579747308,579936942,580126555,580316148,580505719,580695270,580884799,581074308,581263795,581453262,581642707,581832130,582021533,582210913,582400273,582589611,582778927,582968222,583157495,583346746,583535976,583725183,583914369,584103533,584292675,584481795,584670892,584859968,585049021,585238052,585427060,585616047,585805010,585993952,586182870,586371767,586560640,586749491,586938319,587127124,587315906,587504666,587693402,587882115,588070806,588259473,588448117,588636737,588825335,589013909,589202459,589390987,589579490,589767970,589956427,590144859,590333268,590521654,590710015,590898352,591086666,591274955,591463221,591651462,591839679,592027872,592216041,592404186,592592306,592780401,592968472,593156519,593344541,593532538,593720511,593908459,594096382,594284280,594472153,594660002,594847825,595035623,595223396,595411144,595598867,595786565,595974237,596161884,596349505,596537101,596724671,596912216,597099735,597287229,597474696,597662138,597849554,598036944,598224308,598411646,598598958,598786244,598973504,599160738,599347945,599535126,599722280,599909408,600096510,600283585,600470634,600657656,600844651,601031619,601218561,601405476,601592363,601779224,601966058,602152865,602339645,602526398,602713123,602899821,603086492,603273136,603459752,603646340,603832901,604019435,604205941,604392419,604578869,604765292,604951687,605138054,605324393,605510704,605696987,605883242,606069469,606255668,606441838,606627980,606814094,607000179,607186236,607372265,607558265,607744236,607930179,608116092,608301978,608487834,608673662,608859460,609045230,609230971,609416683,609602365,609788019,609973643,610159238,610344803,610530340,610715847,610901324,611086772,611272190,611457579,611642938,611828268,612013567,612198837,612384077,612569287,612754467,612939617,613124738,613309828,613494887,613679917,613864916,614049885,614234824,614419732,614604610,614789457,614974274,615159060,615343816,615528541,615713235,615897898,616082530,616267132,616451702,616636242,616820750,617005228,617189674,617374089,617558473,617742825,617927147,618111436,618295695,618479922,618664117,618848281,619032413,619216513,619400582,619584619,619768624,619952597,620136538,620320447,620504324,620688170,620871983,621055763,621239512,621423228,621606912,621790564,621974183,622157770,622341324,622524846,622708335,622891792,623075215,623258606,623441965,623625290,623808582,623991842,624175068,624358262,624541422,624724550,624907644,625090704,625273732,625456726,625639687,625822615,626005509,626188369,626371196,626553989,626736749,626919475,627102167,627284825,627467450,627650040,627832597,628015120,628197608,628380063,628562483,628744870,628927222,629109539,629291823,629474072,629656286,629838467,630020612,630202724,630384800,630566842,630748849,630930822,631112759,631294662,631476530,631658363,631840161,632021924,632203652,632385345,632567003,632748626,632930213,633111765,633293281,633474763,633656209,633837619,634018994,634200333,634381637,634562905,634744137,634925333,635106494,635287619,635468708,635649761,635830778,636011759,636192704,636373613,636554486,636735322,636916123,637096887,637277614,637458305,637638960,637819578,638000160,638180705,638361214,638541686,638722121,638902520,639082881,639263206,639443494,639623745,639803959,639984136,640164276,640344379,640524445,640704474,640884465,641064419,641244336,641424215,641604057,641783861,641963628,642143358,642323049,642502704,642682320,642861899,643041440,643220943,643400408,643579836,643759225,643938577,644117890,644297166,644476403,644655602,644834763,645013886,645192970,645372016,645551024,645729993,645908924,646087816,646266670,646445485,646624261,646802999,646981698,647160358,647338980,647517562,647696106,647874611,648053077,648231504,648409891,648588240,648766549,648944820,649123051,649301242,649479395,649657508,649835582,650013616,650191611,650369566,650547481,650725357,650903194,651080990,651258747,651436464,651614142,651791779,651969376,652146934,652324451,652501929,652679366,652856764,653034121,653211438,653388714,653565951,653743147,653920303,654097418,654274493,654451527,654628521,654805474,654982387,655159259,655336090,655512880,655689630,655866339,656043007,656219634,656396220,656572766,656749270,656925733,657102155,657278536,657454876,657631174,657807431,657983647,658159822,658335955,658512046,658688097,658864105,659040072,659215998,659391882,659567724,659743525,659919284,660095001,660270676,660446309,660621900,660797450,660972957,661148423,661323846,661499227,661674566,661849863,662025118,662200330,662375501,662550628,662725714,662900757,663075757,663250715,663425631,663600503,663775334,663950121,664124866,664299568,664474228,664648844,664823418,664997949,665172437,665346882,665521284,665695642,665869958,666044231,666218460,666392647,666566790,666740890,666914946,667088959,667262929,667436855,667610738,667784578,667958373,668132126,668305834,668479499,668653120,668826698,669000232,669173722,669347168,669520570,669693928,669867243,670040513,670213739,670386922,670560060,670733154,670906204,671079209,671252171,671425088,671597961,671770789,671943573,672116313,672289008,672461658,672634264,672806826,672979343,673151815,673324242,673496625,673668963,673841256,674013505,674185708,674357867,674529980,674702049,674874072,675046051,675217984,675389873,675561716,675733514,675905267,676076974,676248636,676420253,676591824,676763351,676934831,677106266,677277656,677449000,677620298,677791551,677962758,678133919,678305035,678476105,678647129,678818107,678989040,679159926,679330767,679501561,679672310,679843013,680013669,680184279,680354843,680525361,680695833,680866259,681036638,681206971,681377257,681547498,681717691,681887838,682057939,682227993,682398001,682567962,682737877,682907744,683077566,683247340,683417067,683586748,683756382,683925969,684095509,684265003,684434449,684603848,684773200,684942506,685111764,685280975,685450138,685619255,685788324,685957346,686126321,686295249,686464129,686632961,686801747,686970484,687139175,687307817,687476412,687644960,687813460,687981912,688150317,688318674,688486983,688655244,688823458,688991623,689159741,689327811,689495833,689663807,689831733,689999610,690167440,690335222,690502955,690670641,690838278,691005867,691173407,691340899,691508343,691675739,691843086,692010385,692177635,692344837,692511991,692679095,692846152,693013159,693180118,693347028,693513890,693680703,693847467,694014182,694180848,694347466,694514034,694680554,694847025,695013447,695179819,695346143,695512418,695678643,695844820,696010947,696177025,696343054,696509033,696674964,696840844,697006676,697172458,697338191,697503874,697669508,697835093,698000628,698166113,698331549,698496935,698662271,698827558,698992795,699157983,699323120,699488208,699653246,699818234,699983173,700148061,700312899,700477688,700642426,700807115,700971753,701136341,701300880,701465368,701629806,701794193,701958531,702122818,702287055,702451242,702615378,702779464,702943499,703107484,703271419,703435303,703599137,703762920,703926653,704090335,704253966,704417547,704581077,704744556,704907985,705071363,705234690,705397966,705561191,705724366,705887489,706050562,706213584,706376555,706539475,706702343,706865161,707027928,707190643,707353308,707515921,707678483,707840994,708003453,708165861,708328218,708490524,708652778,708814981,708977133,709139233,709301281,709463279,709625224,709787118,709948961,710110752,710272491,710434179,710595815,710757399,710918931,711080412,711241841,711403219,711564544,711725818,711887039,712048209,712209327,712370393,712531407,712692369,712853279,713014137,713174943,713335696,713496398,713657047,713817644,713978190,714138682,714299123,714459511,714619847,714780131,714940362,715100541,715260667,715420742,715580763,715740732,715900649,716060513,716220325,716380084,716539790,716699444,716859045,717018594,717178089,717337532,717496923,717656260,717815545,717974777,718133956,718293082,718452156,718611176,718770144,718929058,719087920,719246729,719405484,719564187,719722836,719881433,720039976,720198466,720356903,720515287,720673617,720831894,720990119,721148289,721306407,721464471,721622482,721780439,721938343,722096194,722253991,722411735,722569425,722727062,722884645,723042175,723199651,723357073,723514442,723671757,723829019,723986227,724143381,724300482,724457528,724614521,724771460,724928346,725085177,725241955,725398679,725555349,725711965,725868527,726025035,726181489,726337889,726494235,726650527,726806765,726962949,727119079,727275154,727431176,727587143,727743056,727898915,728054719,728210470,728366166,728521808,728677395,728832928,728988407,729143831,729299201,729454517,729609778,729764985,729920137,730075235,730230278,730385267,730540201,730695080,730849905,731004675,731159391,731314052,731468658,731623210,731777707,731932149,732086536,732240869,732395146,732549369,732703538,732857651,733011709,733165713,733319661,733473555,733627394,733781177,733934906,734088580,734242199,734395762,734549271,734702724,734856123,735009466,735162754,735315987,735469165,735622288,735775355,735928367,736081324,736234226,736387072,736539863,736692599,736845280,736997905,737150474,737302989,737455448,737607851,737760199,737912492,738064729,738216910,738369036,738521107,738673122,738825081,738976985,739128833,739280626,739432363,739584044,739735669,739887239,740038754,740190212,740341615,740492962,740644253,740795488,740946668,741097792,741248860,741399872,741550828,741701728,741852573,742003361,742154094,742304770,742455391,742605955,742756464,742906917,743057313,743207654,743357938,743508166,743658338,743808455,743958515,744108518,744258466,744408357,744558193,744707972,744857695,745007361,745156972,745306526,745456023,745605465,745754850,745904179,746053451,746202667,746351827,746500930,746649977,746798967,746947901,747096779,747245600,747394365,747543073,747691724,747840319,747988858,748137340,748285765,748434134,748582446,748730702,748878901,749027043,749175129,749323158,749471130,749619045,749766904,749914706,750062452,750210140,750357772,750505347,750652865,750800327,750947731,751095079,751242370,751389604,751536781,751683902,751830965,751977971,752124921,752271813,752418649,752565428,752712149,752858814,753005421,753151972,753298466,753444902,753591281,753737604,753883869,754030077,754176228,754322322,754468359,754614338,754760261,754906126,755051934,755197685,755343379,755489015,755634594,755780116,755925581,756070988,756216338,756361631,756506867,756652045,756797166,756942229,757087235,757232184,757377075,757521909,757666686,757811405,757956067,758100671,758245218,758389707,758534139,758678513,758822830,758967089,759111291,759255435,759399522,759543551,759687523,759831437,759975294,760119092,760262834,760406517,760550143,760693712,760837223,760980676,761124071,761267409,761410689,761553911,761697076,761840182,761983232,762126223,762269157,762412033,762554851,762697611,762840313,762982958,763125545,763268074,763410545,763552959,763695314,763837612,763979852,764122034,764264158,764406224,764548232,764690182,764832075,764973909,765115685,765257404,765399064,765540667,765682212,765823698,765965127,766106497,766247810,766389064,766530261,766671399,766812480,766953502,767094466,767235372,767376220,767517010,767657742,767798416,767939031,768079589,768220088,768360529,768500912,768641237,768781504,768921712,769061862,769201954,769341988,769481964,769621881,769761740,769901541,770041284,770180968,770320595,770460163,770599672,770739123,770878517,771017851,771157128,771296346,771435506,771574607,771713650,771852635,771991561,772130429,772269239,772407990,772546683,772685318,772823894,772962412,773100871,773239272,773377615,773515899,773654124,773792291,773930400,774068450,774206442,774344376,774482251,774620067,774757825,774895524,775033165,775170748,775308271,775445737,775583144,775720492,775857782,775995013,776132186,776269300,776406355,776543352,776680291,776817171,776953992,777090755,777227459,777364104,777500691,777637219,777773689,777910100,778046453,778182746,778318981,778455158,778591276,778727335,778863335,778999277,779135160,779270985,779406751,779542458,779678106,779813696,779949227,780084700,780220113,780355468,780490764,780626002,780761181,780896301,781031362,781166364,781301308,781436193,781571020,781705787,781840496,781975146,782109737,782244270,782378743,782513158,782647515,782781812,782916050,783050230,783184351,783318413,783452417,783586361,783720247,783854074,783987842,784121551,784255201,784388793,784522326,784655800,784789215,784922571,785055868,785189107,785322286,785455407,785588469,785721472,785854416,785987301,786120128,786252895,786385604,786518254,786650845,786783377,786915850,787048264,787180619,787312916,787445153,787577332,787709451,787841512,787973514,788105457,788237341,788369166,788500932,788632640,788764288,788895877,789027408,789158879,789290292,789421646,789552940,789684176,789815353,789946471,790077530,790208530,790339471,790470353,790601176,790731940,790862646,790993292,791123879,791254408,791384877,791515288,791645639,791775931,791906165,792036340,792166455,792296512,792426509,792556448,792686328,792816149,792945910,793075613,793205257,793334842,793464368,793593834,793723242,793852591,793981881,794111112,794240284,794369397,794498451,794627446,794756382,794885259,795014077,795142836,795271536,795400177,795528759,795657283,795785747,795914152,796042498,796170785,796299013,796427182,796555293,796683344,796811336,796939269,797067144,797194959,797322715,797450412,797578051,797705630,797833150,797960612,798088014,798215357,798342642,798469867,798597034,798724141,798851190,798978179,799105110,799231981,799358794,799485547,799612242,799738878,799865454,799991972,800118431,800244831,800371171,800497453,800623676,800749840,800875945,801001991,801127978,801253906,801379775,801505585,801631336,801757029,801882662,802008236,802133752,802259208,802384606,802509944,802635224,802760445,802885606,803010709,803135753,803260738,803385664,803510531,803635339,803760089,803884779,804009410,804133983,804258496,804382951,804507347,804631684,804755962,804880181,805004341,805128442,805252485,805376468,805500393,805624258,805748065,805871813,805995502,806119132,806242704,806366216,806489670,806613064,806736400,806859677,806982895,807106055,807229155,807352197,807475180,807598104,807720969,807843775,807966522,808089211,808211841,808334412,808456924,808579377,808701772,808824107,808946384,809068602,809190762,809312862,809434904,809556887,809678811,809800677,809922483,810044231,810165920,810287551,810409122,810530635,810652089,810773485,810894821,811016099,811137318,811258479,811379580,811500623,811621608,811742533,811863400,811984208,812104958,812225648,812346281,812466854,812587369,812707825,812828222,812948561,813068841,813189062,813309225,813429329,813549375,813669361,813789290,813909159,814028970,814148722,814268416,814388051,814507628,814627146,814746605,814866006,814985348,815104631,815223857,815343023,815462131,815581180,815700171,815819103,815937977,816056792,816175549,816294247,816412887,816531468,816649990,816768454,816886860,817005207,817123496,817241726,817359898,817478011,817596066,817714062,817832000,817949879,818067700,818185463,818303167,818420813,818538400,818655929,818773400,818890812,819008165,819125461,819242698,819359877,819476997,819594059,819711062,819828008,819944894,820061723,820178493,820295205,820411859,820528454,820644991,820761470,820877891,820994253,821110557,821226802,821342990,821459119,821575190,821691203,821807157,821923053,822038891,822154671,822270393,822386056,822501662,822617209,822732698,822848129,822963501,823078816,823194072,823309270,823424410,823539492,823654516,823769482,823884390,823999239,824114031,824228764,824343439,824458057,824572616,824687117,824801560,824915946,825030273,825144542,825258753,825372906,825487001,825601038,825715018,825828939,825942802,826056607,826170355,826284044,826397676,826511249,826624765,826738223,826851623,826964965,827078249,827191476,827304644,827417755,827530807,827643802,827756740,827869619,827982440,828095204,828207910,828320558,828433149,828545681,828658156,828770573,828882933,828995234,829107478,829219664,829331793,829443864,829555877,829667832,829779730,829891570,830003353,830115078,830226745,830338355,830449907,830561401,830672838,830784217,830895539,831006803,831118009,831229158,831340250,831451284,831562260,831673179,831784041,831894845,832005591,832116280,832226911,832337486,832448002,832558461,832668863,832779208,832889494,832999724,833109896,833220011,833330069,833440069,833550011,833659897,833769725,833879496,833989209,834098865,834208464,834318006,834427490,834536917,834646287,834755600,834864855,834974053,835083194,835192278,835301305,835410274,835519187,835628042,835736840,835845581,835954264,836062891,836171460,836279973,836388428,836496827,836605168,836713452,836821679,836929849,837037962,837146018,837254018,837361960,837469845,837577673,837685444,837793159,837900816,838008417,838115960,838223447,838330877,838438250,838545566,838652825,838760027,838867173,838974261,839081293,839188268,839295187,839402048,839508853,839615601,839722292,839828927,839935505,840042026,840148491,840254898,840361249,840467544,840573782,840679963,840786087,840892155,840998167,841104121,841210020,841315861,841421646,841527375,841633047,841738662,841844221,841949723,842055169,842160559,842265892,842371168,842476389,842581552,842686660,842791710,842896705,843001643,843106525,843211350,843316119,843420832,843525488,843630088,843734632,843839120,843943551,844047926,844152245,844256507,844360714,844464864,844568958,844672995,844776977,844880902,844984772,845088585,845192342,845296043,845399687,845503276,845606809,845710285,845813706,845917070,846020379,846123631,846226828,846329968,846433053,846536082,846639054,846741971,846844832,846947637,847050386,847153079,847255716,847358297,847460823,847563293,847665707,847768065,847870367,847972614,848074804,848176939,848279019,848381042,848483010,848584922,848686779,848788580,848890325,848992014,849093648,849195227,849296749,849398216,849499628,849600984,849702284,849803529,849904718,850005852,850106931,850207953,850308921,850409833,850510689,850611490,850712236,850812926,850913561,851014140,851114665,851215133,851315547,851415905,851516208,851616455,851716647,851816784,851916866,852016893,852116864,852216780,852316641,852416447,852516197,852615893,852715533,852815118,852914648,853014123,853113543,853212907,853312217,853411472,853510671,853609816,853708906,853807940,853906920,854005845,854104714,854203529,854302289,854400994,854499645,854598240,854696780,854795266,854893697,854992073,855090394,855188660,855286872,855385029,855483131,855581178,855679171,855777109,855874992,855972821,856070595,856168314,856265979,856363589,856461145,856558646,856656092,856753484,856850821,856948104,857045333,857142506,857239626,857336691,857433701,857530657,857627559,857724406,857821199,857917937,858014621,858111251,858207827,858304348,858400815,858497227,858593586,858689890,858786139,858882335,858978476,859074564,859170597,859266576,859362500,859458371,859554188,859649950,859745658,859841313,859936913,860032459,860127951,860223389,860318773,860414104,860509380,860604602,860699771,860794885,860889946,860984952,861079905,861174804,861269649,861364441,861459178,861553862,861648492,861743068,861837591,861932059,862026474,862120836,862215143,862309397,862403598,862497745,862591838,862685877,862779863,862873796,862967674,863061500,863155271,863248990,863342655,863436266,863529824,863623328,863716779,863810177,863903521,863996812,864090049,864183233,864276364,864369442,864462466,864555437,864648355,864741219,864834030,864926788,865019493,865112145,865204743,865297288,865389781,865482220,865574606,865666938,865759218,865851445,865943619,866035739,866127807,866219822,866311784,866403692,866495548,866587351,866679101,866770798,866862443,866954034,867045573,867137059,867228492,867319872,867411199,867502474,867593696,867684865,867775982,867867045,867958056,868049015,868139921,868230774,868321575,868412323,868503018,868593661,868684252,868774790,868865275,868955708,869046088,869136416,869226692,869316915,869407086,869497204,869587270,869677284,869767245,869857154,869947011,870036815,870126567,870216267,870305915,870395510,870485053,870574544,870663983,870753370,870842705,870931987,871021218,871110396,871199522,871288596,871377619,871466589,871555507,871644373,871733188,871821950,871910660,871999319,872087925,872176480,872264983,872353434,872441833,872530181,872618477,872706720,872794913,872883053,872971142,873059179,873147164,873235098,873322980,873410810,873498589,873586316,873673992,873761616,873849189,873936710,874024179,874111597,874198964,874286279,874373542,874460755,874547916,874635025,874722083,874809090,874896045,874982950,875069802,875156604,875243354,875330053,875416701,875503298,875589843,875676338,875762781,875849173,875935514,876021803,876108042,876194230,876280367,876366452,876452487,876538470,876624403,876710285,876796115,876881895,876967624,877053302,877138929,877224506,877310031,877395506,877480930,877566303,877651625,877736897,877822118,877907288,877992408,878077477,878162495,878247463,878332380,878417246,878502062,878586827,878671542,878756206,878840820,878925383,879009896,879094358,879178770,879263132,879347443,879431703,879515914,879600074,879684183,879768243,879852252,879936211,880020120,880103978,880187786,880271544,880355252,880438910,880522517,880606075,880689582,880773039,880856446,880939803,881023111,881106368,881189575,881272732,881355839,881438896,881521904,881604861,881687769,881770627,881853434,881936193,882018901,882101559,882184168,882266727,882349236,882431696,882514106,882596466,882678776,882761037,882843248,882925410,883007522,883089585,883171598,883253561,883335475,883417340,883499155,883580920,883662636,883744303,883825921,883907488,883989007,884070476,884151896,884233267,884314588,884395861,884477083,884558257,884639382,884720457,884801483,884882460,884963388,885044266,885125096,885205877,885286608,885367291,885447924,885528509,885609044,885689531,885769968,885850357,885930697,886010988,886091230,886171423,886251567,886331663,886411710,886491708,886571657,886651558,886731409,886811213,886890967,886970673,887050330,887129939,887209499,887289010,887368473,887447887,887527253,887606570,887685839,887765059,887844231,887923355,888002430,888081457,888160435,888239365,888318246,888397080,888475865,888554602,888633290,888711931,888790523,888869067,888947562,889026010,889104409,889182761,889261064,889339319,889417526,889495685,889573796,889651859,889729874,889807841,889885761,889963632,890041455,890119231,890196958,890274638,890352270,890429854,890507390,890584879,890662320,890739713,890817058,890894356,890971606,891048808,891125963,891203070,891280130,891357142,891434106,891511023,891587893,891664714,891741489,891818216,891894895,891971527,892048112,892124649,892201139,892277582,892353977,892430325,892506626,892582880,892659086,892735245,892811357,892887421,892963439,893039409,893115332,893191208,893267037,893342819,893418554,893494242,893569883,893645477,893721024,893796524,893871977,893947383,894022742,894098055,894173320,894248539,894323711,894398836,894473915,894548946,894623931,894698869,894773761,894848606,894923404,894998155,895072860,895147519,895222130,895296696,895371214,895445686,895520112,895594491,895668824,895743110,895817350,895891544,895965691,896039792,896113846,896187854,896261816,896335732,896409601,896483424,896557201,896630932,896704616,896778255,896851847,896925393,896998893,897072347,897145755,897219117,897292433,897365702,897438926,897512104,897585236,897658322,897731362,897804357,897877305,897950208,898023064,898095875,898168641,898241360,898314034,898386662,898459244,898531781,898604272,898676717,898749117,898821471,898893779,898966042,899038260,899110432,899182558,899254639,899326675,899398665,899470609,899542508,899614362,899686171,899757934,899829652,899901324,899972952,900044534,900116071,900187562,900259008,900330410,900401766,900473077,900544342,900615563,900686739,900757869,900828955,900899995,900970991,901041941,901112847,901183708,901254523,901325294,901396020,901466701,901537338,901607929,901678476,901748978,901819435,901889847,901960215,902030538,902100816,902171050,902241239,902311383,902381483,902451538,902521549,902591515,902661437,902731314,902801147,902870935,902940679,903010378,903080033,903149644,903219210,903288732,903358210,903427643,903497032,903566377,903635677,903704934,903774146,903843314,903912438,903981518,904050553,904119545,904188492,904257396,904326255,904395071,904463842,904532569,904601253,904669892,904738488,904807040,904875548,904944012,905012432,905080809,905149141,905217430,905285675,905353877,905422034,905490148,905558219,905626245,905694228,905762168,905830064,905897916,905965725,906033490,906101212,906168890,906236525,906304117,906371665,906439169,906506630,906574048,906641423,906708754,906776042,906843286,906910488,906977646,907044761,907111832,907178861,907245846,907312788,907379687,907446543,907513356,907580126,907646853,907713537,907780178,907846776,907913330,907979842,908046311,908112738,908179121,908245461,908311759,908378014,908444226,908510395,908576521,908642605,908708646,908774645,908840600,908906513,908972384,909038211,909103997,909169739,909235439,909301097,909366712,909432284,909497815,909563302,909628747,909694150,909759511,909824829,909890105,909955338,910020529,910085678,910150784,910215849,910280871,910345851,910410788,910475684,910540537,910605349,910670118,910734845,910799530,910864173,910928774,910993333,911057850,911122325,911186758,911251149,911315499,911379806,911444072,911508295,911572477,911636617,911700716,911764772,911828787,911892760,911956692,912020581,912084430,912148236,912212001,912275724,912339406,912403046,912466645,912530202,912593717,912657192,912720624,912784016,912847365,912910674,912973941,913037167,913100351,913163494,913226596,913289657,913352676,913415654,913478591,913541487,913604342,913667155,913729927,913792658,913855349,913917998,913980606,914043173,914105699,914168184,914230628,914293031,914355393,914417714,914479995,914542234,914604433,914666591,914728708,914790784,914852820,914914814,914976768,915038682,915100555,915162387,915224178,915285929,915347639,915409309,915470938,915532526,915594074,915655582,915717049,915778476,915839862,915901208,915962513,916023778,916085003,916146187,916207331,916268435,916329498,916390521,916451504,916512447,916573350,916634212,916695034,916755816,916816558,916877260,916937922,916998544,917059126,917119668,917180169,917240631,917301053,917361435,917421777,917482079,917542342,917602564,917662747,917722890,917782993,917843056,917903080,917963063,918023008,918082912,918142777,918202602,918262388,918322133,918381840,918441507,918501134,918560722,918620270,918679779,918739248,918798678,918858068,918917419,918976731,919036003,919095236,919154430,919213584,919272699,919331775,919390812,919449809,919508767,919567686,919626566,919685407,919744208,919802971,919861694,919920378,919979024,920037630,920096197,920154726,920213215,920271666,920330077,920388450,920446784,920505079,920563335,920621552,920679730,920737870,920795971,920854033,920912057,920970042,921027988,921085896,921143764,921201595,921259386,921317140,921374854,921432530,921490168,921547767,921605327,921662849,921720333,921777778,921835185,921892554,921949884,922007176,922064430,922121645,922178822,922235961,922293061,922350123,922407148,922464134,922521081,922577991,922634863,922691696,922748492,922805249,922861968,922918650,922975293,923031898,923088466,923144995,923201487,923257941,923314357,923370735,923427075,923483377,923539642,923595869,923652058,923708209,923764323,923820399,923876437,923932438,923988401,924044326,924100214,924156065,924211877,924267653,924323390,924379091,924434753,924490379,924545967,924601517,924657030,924712506,924767944,924823346,924878709,924934036,924989325,925044577,925099792,925154969,925210110,925265213,925320279,925375308,925430300,925485255,925540172,925595053,925649897,925704703,925759473,925814206,925868901,925923560,925978182,926032767,926087315,926141826,926196301,926250739,926305139,926359504,926413831,926468122,926522376,926576593,926630773,926684917,926739025,926793095,926847129,926901127,926955088,927009012,927062900,927116752,927170567,927224345,927278088,927331793,927385463,927439096,927492692,927546253,927599777,927653264,927706716,927760131,927813510,927866853,927920159,927973430,928026664,928079862,928133024,928186150,928239240,928292293,928345311,928398293,928451239,928504148,928557022,928609860,928662662,928715428,928768158,928820853,928873511,928926134,928978721,929031272,929083787,929136267,929188711,929241119,929293492,929345828,929398130,929450395,929502625,929554820,929606979,929659102,929711190,929763242,929815259,929867241,929919187,929971097,930022972,930074812,930126616,930178385,930230119,930281818,930333481,930385109,930436701,930488259,930539781,930591268,930642720,930694136,930745518,930796865,930848176,930899452,930950694,931001900,931053071,931104207,931155309,931206375,931257406,931308403,931359364,931410291,931461183,931512040,931562862,931613650,931664402,931715120,931765803,931816452,931867065,931917645,931968189,932018699,932069174,932119614,932170020,932220392,932270729,932321031,932371299,932421532,932471731,932521896,932572026,932622121,932672182,932722209,932772202,932822160,932872084,932921973,932971829,933021650,933071437,933121189,933170908,933220592,933270242,933319858,933369440,933418988,933468502,933517981,933567427,933616838,933666216,933715560,933764869,933814145,933863387,933912595,933961769,934010909,934060015,934109087,934158126,934207131,934256102,934305039,934353943,934402813,934451649,934500452,934549221,934597956,934646658,934695326,934743960,934792561,934841129,934889662,934938163,934986630,935035063,935083463,935131830,935180163,935228463,935276729,935324962,935373162,935421328,935469462,935517562,935565628,935613662,935661662,935709629,935757563,935805463,935853331,935901165,935948967,935996735,936044470,936092172,936139842,936187478,936235081,936282651,936330188,936377693,936425164,936472603,936520008,936567381,936614721,936662028,936709303,936756544,936803753,936850929,936898073,936945183,936992261,937039307,937086320,937133300,937180247,937227162,937274044,937320894,937367712,937414496,937461249,937507968,937554656,937601311,937647933,937694523,937741081,937787607,937834100,937880560,937926989,937973385,938019749,938066081,938112380,938158647,938204882,938251085,938297256,938343394,938389501,938435575,938481618,938527628,938573606,938619552,938665466,938711349,938757199,938803017,938848804,938894558,938940281,938985971,939031630,939077257,939122853,939168416,939213948,939259448,939304916,939350352,939395757,939441130,939486472,939531781,939577059,939622306,939667521,939712704,939757856,939802976,939848065,939893123,939938148,939983143,940028106,940073037,940117937,940162806,940207643,940252449,940297224,940341967,940386679,940431360,940476010,940520628,940565215,940609771,940654296,940698789,940743252,940787683,940832083,940876452,940920790,940965097,941009373,941053618,941097832,941142015,941186167,941230288,941274378,941318437,941362466,941406463,941450430,941494366,941538271,941582145,941625988,941669801,941713583,941757334,941801055,941844744,941888404,941932032,941975630,942019197,942062734,942106240,942149716,942193161,942236575,942279959,942323313,942366636,942409928,942453191,942496422,942539624,942582795,942625936,942669046,942712126,942755176,942798195,942841184,942884143,942927072,942969970,943012839,943055677,943098485,943141263,943184010,943226728,943269416,943312073,943354701,943397298,943439865,943482403,943524910,943567388,943609835,943652253,943694641,943736999,943779327,943821625,943863893,943906132,943948340,943990519,944032669,944074788,944116878,944158938,944200968,944242969,944284940,944326881,944368793,944410675,944452528,944494351,944536145,944577909,944619643,944661348,944703024,944744670,944786287,944827874,944869432,944910960,944952459,944993929,945035370,945076781,945118163,945159515,945200838,945242133,945283397,945324633,945365840,945407017,945448165,945489284,945530374,945571435,945612467,945653470,945694443,945735388,945776304,945817190,945858048,945898877,945939676,945980447,946021189,946061902,946102587,946143242,946183869,946224467,946265036,946305576,946346087,946386570,946427024,946467449,946507846,946548214,946588553,946628864,946669146,946709399,946749624,946789820,946829988,946870127,946910238,946950320,946990374,947030399,947070396,947110364,947150304,947190216,947230099,947269954,947309781,947349579,947389349,947429091,947468804,947508489,947548146,947587775,947627375,947666948,947706492,947746008,947785496,947824956,947864387,947903791,947943167,947982514,948021834,948061125,948100389,948139624,948178832,948218012,948257163,948296287,948335383,948374451,948413492,948452504,948491489,948530445,948569374,948608276,948647149,948685995,948724813,948763604,948802366,948841101,948879809,948918489,948957141,948995765,949034362,949072932,949111474,949149988,949188475,949226935,949265367,949303771,949342148,949380498,949418820,949457115,949495382,949533623,949571835,949610021,949648179,949686310,949724414,949762490,949800539,949838561,949876556,949914524,949952464,949990378,950028264,950066123,950103955,950141760,950179537,950217288,950255012,950292709,950330378,950368021,950405637,950443226,950480788,950518323,950555831,950593312,950630767,950668194,950705595,950742969,950780316,950817637,950854930,950892197,950929437,950966651,951003838,951040998,951078131,951115238,951152318,951189372,951226399,951263399,951300373,951337321,951374242,951411136,951448004,951484845,951521660,951558449,951595211,951631946,951668656,951705338,951741995,951778625,951815229,951851807,951888358,951924883,951961382,951997854,952034301,952070721,952107115,952143483,952179824,952216140,952252429,952288692,952324929,952361141,952397326,952433485,952469618,952505725,952541806,952577861,952613890,952649893,952685870,952721821,952757747,952793646,952829520,952865368,952901190,952936986,952972757,953008501,953044220,953079913,953115581,953151222,953186838,953222429,953257994,953293533,953329046,953364534,953399996,953435433,953470844,953506229,953541589,953576924,953612233,953647516,953682775,953718007,953753214,953788396,953823552,953858683,953893789,953928869,953963924,953998954,954033958,954068937,954103891,954138820,954173723,954208601,954243454,954278282,954313084,954347862,954382614,954417341,954452043,954486720,954521372,954555998,954590600,954625177,954659729,954694255,954728757,954763234,954797686,954832113,954866515,954900892,954935244,954969571,955003874,955038151,955072404,955106632,955140835,955175014,955209168,955243297,955277401,955311481,955345535,955379566,955413571,955447552,955481508,955515440,955549347,955583230,955617088,955650921,955684730,955718514,955752274,955786009,955819720,955853407,955887069,955920706,955954320,955987908,956021473,956055013,956088529,956122020,956155487,956188930,956222349,956255743,956289113,956322459,956355780,956389078,956422351,956455600,956488825,956522026,956555202,956588355,956621483,956654588,956687668,956720724,956753756,956786765,956819749,956852709,956885645,956918558,956951446,956984311,957017151,957049968,957082761,957115530,957148275,957180996,957213694,957246368,957279017,957311644,957344246,957376825,957409380,957441911,957474419,957506903,957539363,957571800,957604213,957636602,957668968,957701310,957733629,957765924,957798196,957830444,957862668,957894870,957927047,957959201,957991332,958023440,958055523,958087584,958119621,958151635,958183626,958215593,958247536,958279457,958311354,958343228,958375079,958406906,958438711,958470492,958502250,958533984,958565696,958597384,958629049,958660692,958692311,958723907,958755479,958787029,958818556,958850060,958881540,958912998,958944433,958975845,959007234,959038600,959069942,959101263,959132560,959163834,959195086,959226314,959257520,959288703,959319863,959351001,959382115,959413207,959444276,959475323,959506346,959537347,959568326,959599281,959630214,959661125,959692012,959722878,959753720,959784540,959815338,959846113,959876865,959907595,959938302,959968987,959999649,960030289,960060907,960091502,960122075,960152625,960183153,960213658,960244141,960274602,960305041,960335457,960365851,960396222,960426572,960456899,960487204,960517487,960547747,960577985,960608201,960638395,960668567,960698717,960728844,960758950,960789033,960819095,960849134,960879151,960909146,960939119,960969071,960999000,961028907,961058792,961088656,961118497,961148317,961178114,961207890,961237644,961267376,961297086,961326774,961356441,961386085,961415708,961445310,961474889,961504447,961533983,961563497,961592990,961622461,961651910,961681337,961710743,961740128,961769491,961798832,961828151,961857449,961886726,961915981,961945214,961974426,962003617,962032785,962061933,962091059,962120164,962149247,962178309,962207349,962236368,962265366,962294342,962323297,962352231,962381143,962410034,962438904,962467753,962496580,962525386,962554171,962582934,962611677,962640398,962669098,962697777,962726435,962755072,962783687,962812282,962840855,962869408,962897939,962926450,962954939,962983407,963011854,963040281,963068686,963097070,963125434,963153777,963182098,963210399,963238679,963266938,963295176,963323393,963351590,963379766,963407920,963436055,963464168,963492261,963520332,963548384,963576414,963604424,963632413,963660381,963688329,963716256,963744162,963772048,963799914,963827758,963855582,963883386,963911169,963938931,963966673,963994395,964022096,964049776,964077436,964105076,964132695,964160294,964187872,964215430,964242968,964270485,964297982,964325458,964352915,964380350,964407766,964435161,964462536,964489891,964517226,964544540,964571834,964599108,964626362,964653595,964680809,964708002,964735175,964762328,964789461,964816574,964843667,964870740,964897792,964924825,964951837,964978830,965005803,965032755,965059688,965086601,965113493,965140366,965167219,965194052,965220865,965247659,965274432,965301186,965327919,965354633,965381327,965408002,965434656,965461291,965487906,965514501,965541077,965567633,965594169,965620685,965647182,965673659,965700117,965726555,965752973,965779372,965805751,965832110,965858450,965884771,965911072,965937353,965963615,965989857,966016080,966042283,966068467,966094632,966120777,966146902,966173009,966199096,966225163,966251211,966277240,966303249,966329239,966355210,966381162,966407094,966433007,966458901,966484775,966510630,966536466,966562283,966588081,966613859,966639618,966665358,966691079,966716781,966742464,966768128,966793772,966819398,966845004,966870591,966896160,966921709,966947239,966972751,966998243,967023716,967049171,967074606,967100023,967125420,967150799,967176159,967201500,967226822,967252125,967277409,967302675,967327922,967353150,967378359,967403549,967428721,967453874,967479008,967504123,967529220,967554298,967579357,967604398,967629420,967654423,967679408,967704374,967729322,967754251,967779161,967804053,967828926,967853781,967878617,967903434,967928233,967953014,967977776,968002520,968027245,968051952,968076640,968101310,968125962,968150595,968175210,968199806,968224384,968248944,968273485,968298008,968322513,968346999,968371468,968395918,968420349,968444763,968469158,968493535,968517894,968542234,968566557,968590861,968615147,968639415,968663665,968687897,968712111,968736306,968760484,968784643,968808784,968832908,968857013,968881101,968905170,968929221,968953255,968977270,969001267,969025247,969049208,969073152,969097078,969120986,969144876,969168748,969192602,969216439,969240257,969264058,969287841,969311606,969335354,969359084,969382796,969406490,969430166,969453825,969477466,969501089,969524695,969548283,969571854,969595406,969618941,969642459,969665959,969689441,969712906,969736353,969759783,969783195,969806589,969829966,969853326,969876668,969899992,969923299,969946589,969969861,969993116,970016353,970039573,970062775,970085961,970109128,970132279,970155412,970178527,970201626,970224707,970247771,970270817,970293846,970316858,970339853,970362830,970385790,970408733,970431659,970454568,970477459,970500334,970523191,970546031,970568853,970591659,970614448,970637219,970659974,970682711,970705431,970728135,970750821,970773490,970796142,970818777,970841396,970863997,970886581,970909148,970931699,970954232,970976749,970999248,971021731,971044197,971066646,971089078,971111493,971133891,971156273,971178638,971200986,971223317,971245631,971267929,971290210,971312474,971334722,971356952,971379166,971401364,971423544,971445708,971467856,971489986,971512100,971534198,971556279,971578343,971600390,971622422,971644436,971666434,971688415,971710380,971732329,971754260,971776176,971798075,971819957,971841823,971863672,971885505,971907322,971929122,971950906,971972673,971994424,972016159,972037877,972059579,972081265,972102934,972124587,972146224,972167844,972189449,972211036,972232608,972254163,972275703,972297225,972318732,972340223,972361697,972383155,972404597,972426023,972447433,972468826,972490204,972511565,972532911,972554240,972575553,972596850,972618131,972639396,972660645,972681878,972703095,972724296,972745481,972766650,972787803,972808940,972830061,972851166,972872256,972893329,972914387,972935428,972956454,972977464,972998458,973019436,973040399,973061346,973082276,973103191,973124091,973144974,973165842,973186694,973207530,973228351,973249156,973269945,973290718,973311476,973332218,973352945,973373655,973394351,973415030,973435694,973456342,973476975,973497592,973518194,973538780,973559350,973579905,973600445,973620969,973641477,973661970,973682448,973702910,973723356,973743787,973764203,973784603,973804988,973825358,973845712,973866050,973886374,973906682,973926974,973947251,973967513,973987760,974007991,974028207,974048408,974068593,974088764,974108919,974129058,974149183,974169292,974189386,974209465,974229529,974249577,974269611,974289629,974309632,974329620,974349593,974369550,974389493,974409421,974429333,974449230,974469113,974488980,974508832,974528669,974548492,974568299,974588091,974607868,974627631,974647378,974667110,974686828,974706530,974726218,974745890,974765548,974785191,974804819,974824432,974844031,974863614,974883183,974902737,974922276,974941800,974961309,974980804,975000284,975019749,975039199,975058635,975078056,975097462,975116854,975136230,975155592,975174940,975194273,975213591,975232894,975252183,975271457,975290717,975309962,975329192,975348408,975367610,975386796,975405969,975425126,975444269,975463398,975482512,975501612,975520697,975539767,975558824,975577865,975596893,975615905,975634904,975653888,975672858,975691813,975710754,975729680,975748592,975767490,975786373,975805242,975824097,975842938,975861764,975880576,975899373,975918157,975936926,975955680,975974421,975993147,976011860,976030557,976049241,976067911,976086566,976105207,976123834,976142447,976161046,976179631,976198201,976216758,976235300,976253828,976272342,976290842,976309328,976327800,976346258,976364702,976383132,976401548,976419950,976438338,976456712,976475072,976493418,976511750,976530068,976548372,976566663,976584939,976603202,976621450,976639685,976657906,976676113,976694306,976712486,976730651,976748803,976766941,976785065,976803175,976821272,976839355,976857424,976875479,976893521,976911549,976929563,976947563,976965550,976983523,977001482,977019428,977037360,977055278,977073183,977091074,977108952,977126816,977144666,977162503,977180326,977198136,977215932,977233714,977251483,977269239,977286980,977304709,977322424,977340125,977357813,977375488,977393149,977410796,977428430,977446051,977463658,977481252,977498832,977516400,977533953,977551493,977569020,977586534,977604034,977621521,977638995,977656455,977673902,977691336,977708756,977726163,977743557,977760937,977778305,977795659,977813000,977830327,977847642,977864943,977882231,977899506,977916768,977934016,977951252,977968474,977985683,978002879,978020062,978037232,978054388,978071532,978088662,978105780,978122884,978139976,978157054,978174119,978191171,978208211,978225237,978242250,978259250,978276238,978293212,978310173,978327122,978344057,978360980,978377890,978394786,978411670,978428541,978445399,978462245,978479077,978495896,978512703,978529497,978546278,978563046,978579802,978596544,978613274,978629991,978646695,978663387,978680066,978696732,978713385,978730026,978746654,978763269,978779871,978796461,978813038,978829603,978846155,978862694,978879220,978895734,978912236,978928724,978945200,978961664,978978115,978994553,979010979,979027392,979043793,979060181,979076556,979092920,979109270,979125608,979141934,979158247,979174548,979190836,979207112,979223375,979239626,979255864,979272090,979288304,979304505,979320694,979336870,979353034,979369186,979385325,979401452,979417567,979433669,979449759,979465837,979481902,979497955,979513996,979530025,979546041,979562045,979578037,979594016,979609984,979625939,979641882,979657812,979673731,979689637,979705531,979721413,979737283,979753141,979768986,979784819,979800641,979816450,979832247,979848032,979863805,979879565,979895314,979911051,979926775,979942488,979958188,979973877,979989553,980005218,980020870,980036511,980052139,980067756,980083361,980098953,980114534,980130103,980145659,980161204,980176737,980192258,980207767,980223265,980238750,980254224,980269685,980285135,980300573,980315999,980331414,980346816,980362207,980377586,980392953,980408308,980423652,980438984,980454304,980469612,980484909,980500194,980515467,980530728,980545978,980561216,980576442,980591657,980606860,980622051,980637231,980652399,980667555,980682700,980697833,980712955,980728065,980743163,980758250,980773325,980788388,980803441,980818481,980833510,980848527,980863533,980878528,980893511,980908482,980923442,980938390,980953327,980968253,980983167,980998069,981012961,981027840,981042709,981057565,981072411,981087245,981102068,981116879,981131679,981146467,981161245,981176010,981190765,981205508,981220240,981234960,981249670,981264368,981279054,981293730,981308394,981323047,981337688,981352318,981366938,981381545,981396142,981410727,981425302,981439865,981454417,981468957,981483487,981498005,981512512,981527008,981541493,981555967,981570429,981584881,981599321,981613750,981628169,981642576,981656972,981671357,981685731,981700093,981714445,981728786,981743116,981757434,981771742,981786039,981800325,981814599,981828863,981843116,981857358,981871589,981885808,981900017,981914216,981928403,981942579,981956744,981970899,981985042,981999175,982013297,982027408,982041508,982055597,982069675,982083743,982097799,982111845,982125880,982139905,982153918,982167921,982181913,982195894,982209864,982223824,982237773,982251711,982265639,982279555,982293461,982307357,982321241,982335115,982348978,982362831,982376673,982390504,982404325,982418135,982431934,982445723,982459501,982473268,982487025,982500771,982514507,982528232,982541947,982555650,982569344,982583027,982596699,982610361,982624012,982637653,982651283,982664903,982678512,982692111,982705699,982719277,982732844,982746401,982759947,982773483,982787009,982800524,982814029,982827523,982841007,982854481,982867944,982881397,982894839,982908271,982921693,982935104,982948505,982961896,982975276,982988646,983002006,983015355,983028694,983042023,983055342,983068650,983081948,983095236,983108513,983121781,983135038,983148284,983161521,983174747,983187964,983201170,983214365,983227551,983240727,983253892,983267047,983280192,983293327,983306452,983319566,983332671,983345765,983358849,983371923,983384988,983398042,983411085,983424119,983437143,983450157,983463161,983476154,983489138,983502112,983515075,983528029,983540972,983553906,983566830,983579743,983592647,983605541,983618424,983631298,983644162,983657016,983669860,983682694,983695518,983708333,983721137,983733931,983746716,983759491,983772256,983785011,983797756>>

\* pow(0.5, 1.2) in 1/10^9: what power_score tends to as normalized_score
\* rises to 0.5, where the exponent changes
PowerBelowHalf == 435275281

\* power_score in 1/10^9 of a score clamped to [0, 100], in 1/100000: the
\* table at the 1/100 of a point below it, and a straight line from there
\* to the next entry
power_score_of(clamped) ==
    LET i == clamped \div 1000
        f == clamped % 1000
        lo == SigmoidPowerTable[i + 1]
        hi == IF i = 4999 THEN PowerBelowHalf ELSE SigmoidPowerTable[i + 2]
    IN  IF f = 0 THEN lo ELSE lo + ((hi - lo) * f) \div 1000

\* max(0, min(100, score_0_100)), in 1/100000
ClampScore(score_0_100) == Max(0, Min(100 * 100000, score_0_100))

\* max(min_score, min(max_score, int(final_score)))
ClampToRange(final_score, dynamic_range) ==
    Max(dynamic_range.min_score, Min(dynamic_range.max_score, final_score))

\* Variant: the 0-100 total itself, not scaled into the range.
UnscaledScore(score_0_100, dynamic_range) == score_0_100 \div 100000

\* Variant: the scale runs downwards, from max_score for a total of 0.
DescendingScale(score_0_100, dynamic_range) ==
    LET power_score == power_score_of(ClampScore(score_0_100))
        score_range == dynamic_range.max_score - dynamic_range.min_score
        scaled == ((power_score \div 10000) * score_range) \div 100000
    IN  ClampToRange(dynamic_range.max_score - scaled, dynamic_range)

_convert_to_dynamic_scale(score_0_100, dynamic_range) ==
    LET power_score == power_score_of(ClampScore(score_0_100))
        score_range == dynamic_range.max_score - dynamic_range.min_score
        \* int(power_score * score_range): power_score = p1 / 10^5 + p0 / 10^9
        p1 == power_score \div 10000
        p0 == power_score % 10000
        scaled == (p1 * score_range + (p0 * score_range) \div 10000) \div 100000
    IN  ClampToRange(dynamic_range.min_score + scaled, dynamic_range)

----------------------------------------------------------------------------
(* DynamicCibilScoreCalculator: the two scoring paths *)

\* the sum over the factors of scores[k] * weights[k], scores in 1/100 and
\* weights in 1/total
WeightedPoints(scores, sf) ==
    Total([k \in FactorNames |-> scores[k] * sf.weights[k]])

\* Variant: the CibilScore object is given the weighted contributions in
\* place of the factor scores.
ResultWithContributions(customer, h, sf) ==
    LET scores == factor_scores(h)
        base_final_score == MulDiv(WeightedPoints(scores, sf), 1000, sf.total)
        behavioral_multiplier == _get_behavioral_adjustments(h)
        adjusted_final_score == MulDiv(base_final_score, behavioral_multiplier, 10000)
        dynamic_range == _calculate_dynamic_score_range(h)
        base_cibil_score == _convert_to_dynamic_scale(base_final_score, dynamic_range)
        final_cibil_score == _convert_to_dynamic_scale(adjusted_final_score, dynamic_range)
        contribution == [k \in FactorNames |-> (scores[k] * sf.weights[k]) \div sf.total]
    IN  [cibil_score_obj |->
            [customer |-> customer,
             score |-> final_cibil_score,
             payment_history_score |-> contribution.payment_history,
             credit_utilization_score |-> contribution.credit_utilization,
             credit_history_length_score |-> contribution.credit_history_length,
             credit_mix_score |-> contribution.credit_mix,
             new_credit_score |-> contribution.new_credit,
             is_latest |-> TRUE],
         base_score |-> base_cibil_score,
         final_score |-> final_cibil_score,
         behavioral_multiplier |-> behavioral_multiplier,
         dynamic_range |-> dynamic_range,
         base_final_score |-> base_final_score,
         adjusted_final_score |-> adjusted_final_score]

\* calculate_dynamic_cibil_score up to the CibilScore object: the object
\* (is_latest is the field's default, True) and the dictionary returned
\* with it
calculate_result(customer, h, sf) ==
    LET scores == factor_scores(h)
        \* base_final_score in 1/100000
        base_final_score == MulDiv(WeightedPoints(scores, sf), 1000, sf.total)
        behavioral_multiplier == _get_behavioral_adjustments(h)
        adjusted_final_score == MulDiv(base_final_score, behavioral_multiplier, 10000)
        dynamic_range == _calculate_dynamic_score_range(h)
        base_cibil_score == _convert_to_dynamic_scale(base_final_score, dynamic_range)
        final_cibil_score == _convert_to_dynamic_scale(adjusted_final_score, dynamic_range)
    IN  [cibil_score_obj |->
            [customer |-> customer,
             score |-> final_cibil_score,
             payment_history_score |-> scores.payment_history,
             credit_utilization_score |-> scores.credit_utilization,
             credit_history_length_score |-> scores.credit_history_length,
             credit_mix_score |-> scores.credit_mix,
             new_credit_score |-> scores.new_credit,
             is_latest |-> TRUE],
         base_score |-> base_cibil_score,
         final_score |-> final_cibil_score,
         behavioral_multiplier |-> behavioral_multiplier,
         dynamic_range |-> dynamic_range,
         base_final_score |-> base_final_score,
         adjusted_final_score |-> adjusted_final_score]

\* round(n / d, .) of a double, for d > 0 and any n.  Where n / d is not
\* halfway between two units the result is the nearer one.  Where it is, the
\* double the code rounds lies on one side or the other of the half, as the
\* representation errors of its operands fall (44.25 * 1.02 rounds to 45.13,
\* 45.5 * 0.95 to 43.23): both neighbours are results.
RoundChoices(n, d) ==
    LET m == IF n >= 0 THEN n ELSE 0 - n
        q == m \div d
        r == m % d
        nearest == IF 2 * r = d THEN {q, q + 1} ELSE IF 2 * r > d THEN {q + 1} ELSE {q}
    IN  {IF n >= 0 THEN v ELSE 0 - v : v \in nearest}

_get_score_rating(score) ==
    IF score >= 9000 THEN "Excellent"
    ELSE IF score >= 8000 THEN "Very Good"
    ELSE IF score >= 7000 THEN "Good"
    ELSE IF score >= 6000 THEN "Fair"
    ELSE IF score >= 5000 THEN "Average"
    ELSE "Poor"

\* get_comprehensive_score_breakdown with the rounded figures given: the
\* weighted contributions, the displayed weights and the displayed adjusted
\* total (contribution_percentage, a display figure derived from the fields
\* below, is left out)
BreakdownWith(h, sf, weighted_contribution, shown_weights, adjusted_shown) ==
    LET scores == factor_scores(h)
        base_total == Total(weighted_contribution)
        behavioral_multiplier == _get_behavioral_adjustments(h)
        \* adjusted_total in 1/100000
        adjusted_total == (base_total * behavioral_multiplier) \div 10
        dynamic_range == _calculate_dynamic_score_range(h)
        base_cibil_score == _convert_to_dynamic_scale(1000 * base_total, dynamic_range)
        final_cibil_score == _convert_to_dynamic_scale(adjusted_total, dynamic_range)
    IN  [final_cibil_score |-> final_cibil_score,
         base_cibil_score |-> base_cibil_score,
         dynamic_range |-> dynamic_range,
         custom_weights |-> shown_weights,
         behavioral_adjustments |->
            [total_multiplier |-> behavioral_multiplier,
             underutilization_penalty |-> _get_underutilization_penalty(h),
             diversity_adjustment |-> _get_credit_diversity_adjustment(h),
             consistency_adjustment |-> _get_payment_consistency_adjustment(h),
             growth_adjustment |-> _get_credit_growth_adjustment(h)],
         score_factors |->
            [k \in FactorNames |->
                [raw_score |-> scores[k],
                 weighted_contribution |-> weighted_contribution[k],
                 score_rating |-> _get_score_rating(scores[k])]],
         summary |->
            [base_total_score |-> base_total,
             adjusted_total_score |-> adjusted_shown,
             improvement_potential |-> 10000 - base_total,
             score_range_width |-> dynamic_range.range_width]]

\* every mapping over the factor names that takes each factor into choices[factor]
FactorMaps(choices) ==
    {[payment_history |-> ph, credit_utilization |-> cu, credit_history_length |-> chl,
      credit_mix |-> cm, new_credit |-> nc] :
        ph \in choices.payment_history, cu \in choices.credit_utilization,
        chl \in choices.credit_history_length, cm \in choices.credit_mix,
        nc \in choices.new_credit}

\* get_comprehensive_score_breakdown: the breakdowns the call can return
get_comprehensive_score_breakdown(h, sf) ==
    LET scores == factor_scores(h)
        behavioral_multiplier == _get_behavioral_adjustments(h)
        \* round(raw_score * weight, 2)
        contributions ==
            FactorMaps([k \in FactorNames |-> RoundChoices(scores[k] * sf.weights[k], sf.total)])
        \* round(v * 100, 1), in 1/10 of a percent
        shown ==
            FactorMaps([k \in FactorNames |-> RoundChoices(1000 * sf.weights[k], sf.total)])
    IN  UNION {{BreakdownWith(h, sf, wc, sw, adj) :
                    sw \in shown,
                    adj \in RoundChoices(Total(wc) * behavioral_multiplier, 10000)} :
               wc \in contributions}

----------------------------------------------------------------------------
(* Calls and workers *)

Workers == {"w1", "w2"}

\* custom_weights mappings: [key -> weight in 1/100]
NoWeights == [k \in {} |-> 0]
Weights(ph, cu, chl, cm, nc) ==
    [payment_history |-> ph, credit_utilization |-> cu,
     credit_history_length |-> chl, credit_mix |-> cm, new_credit |-> nc]

\* 35/25/15/15/10 as percentages and as fractions
PercentWeights == Weights(3500, 2500, 1500, 1500, 1000)
FractionWeights == Weights(35, 25, 15, 15, 10)
ZeroWeights == Weights(0, 0, 0, 0, 0)

Call(op, pan, custom_weights, commit) ==
    [op |-> op, pan |-> pan, custom_weights |-> custom_weights, commit |-> commit]

NoCall == Call("none", "", NoWeights, FALSE)

\* the locals of a call: the calculator (its score_factors; one element, or
\* none when none was constructed), the result of
\* calculate_dynamic_cibil_score (one element, or none), whether the worker
\* is inside transaction.atomic(), the rows its open transaction has
\* updated and holds locked, and the rows a waiting UPDATE matched
NoLocal ==
    [calculator |-> <<>>, result |-> <<>>,
     in_transaction |-> FALSE, demoted |-> {}, waiting |-> FALSE, matched |-> {}]

\* what a call returned: the HTTP status (0 for a direct call of the
\* calculator), the exception a direct call raised, the returned result
\* and breakdown (one element, or none)
Response(status, error, result, breakdown) ==
    [status |-> status, error |-> error, result |-> result, breakdown |-> breakdown]

NoResponse == Response(0 - 1, "", <<>>, <<>>)

valid_factors == FactorNames

\* views.py: the weight checks of process_cibil_score
\* Variant: only the factor names are checked, not the weights.
NamesChecked(custom_weights) ==
    \E factor \in DOMAIN custom_weights : factor \notin valid_factors

WeightsRejected(custom_weights) ==
    \E factor \in DOMAIN custom_weights :
        \/ factor \notin valid_factors
        \/ custom_weights[factor] < 0
        \/ custom_weights[factor] > 100 * 100

\* views.py imports UserInputCibilCalculator from cibil_calculator, where no
\* class of that name is defined; it is constructed and called as
\* DynamicCibilScoreCalculator is, which stands for it: the constructor
\* (score_factors) and calculate_dynamic_cibil_score / the breakdown
UserInputCibilCalculator(custom_weights) == score_factors_of(custom_weights)

----------------------------------------------------------------------------
(* The cibil_scores table.  Statements run at READ COMMITTED: a statement  *)
(* sees the committed rows and the changes of its own transaction, a row   *)
(* updated by an open transaction stays locked until that transaction      *)
(* commits, and an UPDATE that meets a locked row waits and then looks at  *)
(* that row again.                                                         *)

RowIds == 1 .. Len(cibil_scores)

\* Variant: the filter leaves the customer out.
LatestOfAnyCustomer(w, customer) ==
    {i \in RowIds : cibil_scores[i].is_latest /\ i \notin local[w].demoted}

\* CibilScore.objects.filter(customer=customer, is_latest=True), as worker w sees it
LatestRows(w, customer) ==
    {i \in RowIds :
        /\ cibil_scores[i].customer = customer
        /\ cibil_scores[i].is_latest
        /\ i \notin local[w].demoted}

LockedByOthers(w) == UNION {local[v].demoted : v \in Workers \ {w}}

\* Variant: an UPDATE that changes no row.
KeepLatest(rows, ids) == rows

\* .update(is_latest=False) on the rows ids, committed
Demote(rows, ids) ==
    [i \in 1 .. Len(rows) |->
        IF i \in ids THEN [rows[i] EXCEPT !.is_latest = FALSE] ELSE rows[i]]

customer_of(w) == request[w].pan

\* the UPDATE of worker w on the rows ids: inside a transaction the rows
\* are changed for w alone and locked, otherwise the change is committed
ApplyUpdate(w, ids, next) ==
    /\ pc' = [pc EXCEPT ![w] = next]
    /\ IF local[w].in_transaction
       THEN /\ local' = [local EXCEPT ![w].demoted = @ \cup ids,
                                      ![w].waiting = FALSE, ![w].matched = {}]
            /\ UNCHANGED cibil_scores
       ELSE /\ cibil_scores' = Demote(cibil_scores, ids)
            /\ local' = [local EXCEPT ![w].waiting = FALSE, ![w].matched = {}]
    /\ UNCHANGED <<db, request, response>>

\* views.py:77 and cibil_calculator.py:113
UpdateLatest(w) ==
    /\ pc[w] = "update"
    /\ ~local[w].waiting
    /\ LatestRows(w, customer_of(w)) \cap LockedByOthers(w) = {}
    /\ ApplyUpdate(w, LatestRows(w, customer_of(w)), "save")

\* models.py:209-211, CibilScore.save: self.is_latest is True for every
\* object the calculator builds
SaveUpdate(w) ==
    /\ pc[w] = "save"
    /\ ~local[w].waiting
    /\ local[w].result[1].cibil_score_obj.is_latest
    /\ LatestRows(w, customer_of(w)) \cap LockedByOthers(w) = {}
    /\ ApplyUpdate(w, LatestRows(w, customer_of(w)), "insert")

\* an UPDATE meets a row another transaction holds locked, and waits
WaitForLock(w) ==
    /\ pc[w] \in {"update", "save"}
    /\ ~local[w].waiting
    /\ LatestRows(w, customer_of(w)) \cap LockedByOthers(w) # {}
    /\ local' = [local EXCEPT ![w].waiting = TRUE,
                              ![w].matched = LatestRows(w, customer_of(w))]
    /\ UNCHANGED <<db, cibil_scores, request, pc, response>>

\* the locks are gone: the waiting UPDATE changes the rows it matched that
\* are still is_latest
ResumeUpdate(w) ==
    /\ pc[w] \in {"update", "save"}
    /\ local[w].waiting
    /\ local[w].matched \cap LockedByOthers(w) = {}
    /\ ApplyUpdate(w, {i \in local[w].matched : cibil_scores[i].is_latest},
                   IF pc[w] = "update" THEN "save" ELSE "insert")

\* models.py:212, super().save(): the INSERT; leaving transaction.atomic()
\* commits it with the transaction's updates.  calculate_dynamic_cibil_score
\* then returns; process_cibil_score goes on to the breakdown.
Insert(w) ==
    /\ pc[w] = "insert"
    /\ cibil_scores' =
        Append(Demote(cibil_scores, local[w].demoted), local[w].result[1].cibil_score_obj)
    /\ local' = [local EXCEPT ![w].demoted = {}, ![w].in_transaction = FALSE]
    /\ IF request[w].op = "process_cibil_score"
       THEN /\ pc' = [pc EXCEPT ![w] = "respond"]
            /\ UNCHANGED response
       ELSE /\ pc' = [pc EXCEPT ![w] = "idle"]
            /\ response' = [response EXCEPT ![w] = Response(0, "", local[w].result, <<>>)]
    /\ UNCHANGED <<db, request>>

----------------------------------------------------------------------------
(* views.py: process_cibil_score *)

Reply(w, r) ==
    /\ response' = [response EXCEPT ![w] = r]
    /\ pc' = [pc EXCEPT ![w] = "idle"]

\* lines 47-74: validation, the customer, the calculator and the unsaved score
ProcessRequest(w) ==
    /\ pc[w] = "accepted"
    /\ request[w].op = "process_cibil_score"
    /\ LET pan == request[w].pan
           custom_weights == request[w].custom_weights
           calculator == UserInputCibilCalculator(custom_weights)
       IN  IF pan = "" \/ WeightsRejected(custom_weights)
           THEN Reply(w, Response(400, "", <<>>, <<>>)) /\ UNCHANGED local
           ELSE IF pan \notin Customers
           THEN Reply(w, Response(404, "", <<>>, <<>>)) /\ UNCHANGED local
           ELSE IF calculator.error # "none"
           THEN Reply(w, Response(500, calculator.error, <<>>, <<>>)) /\ UNCHANGED local
           ELSE /\ local' = [local EXCEPT ![w] =
                    [NoLocal EXCEPT !.calculator = <<calculator>>,
                                    !.result = <<calculate_result(pan, db[pan], calculator)>>,
                                    !.in_transaction = TRUE]]
                /\ pc' = [pc EXCEPT ![w] = "update"]
                /\ UNCHANGED response
    /\ UNCHANGED <<db, cibil_scores, request>>

\* lines 80-113: the breakdown and the 200 response
Respond(w) ==
    /\ pc[w] = "respond"
    /\ \E breakdown \in get_comprehensive_score_breakdown(db[customer_of(w)],
                                                          local[w].calculator[1]) :
            Reply(w, Response(200, "", local[w].result, <<breakdown>>))
    /\ UNCHANGED <<db, cibil_scores, request, local>>

----------------------------------------------------------------------------
(* Direct calls of the calculator *)

\* Variant: the object is saved whatever commit is.
CalculateAndSave(w) ==
    /\ pc[w] = "accepted"
    /\ request[w].op = "calculate_dynamic_cibil_score"
    /\ LET calculator == score_factors_of(request[w].custom_weights)
       IN  IF calculator.error # "none"
           THEN Reply(w, Response(0, calculator.error, <<>>, <<>>)) /\ UNCHANGED local
           ELSE /\ local' = [local EXCEPT ![w] =
                        [NoLocal EXCEPT
                            !.calculator = <<calculator>>,
                            !.result = <<calculate_result(customer_of(w), db[customer_of(w)],
                                                          calculator)>>]]
                /\ pc' = [pc EXCEPT ![w] = "update"]
                /\ UNCHANGED response
    /\ UNCHANGED <<db, cibil_scores, request>>

\* DynamicCibilScoreCalculator(customer, custom_weights)
\*     .calculate_dynamic_cibil_score(commit)
CalculateCall(w) ==
    /\ pc[w] = "accepted"
    /\ request[w].op = "calculate_dynamic_cibil_score"
    /\ LET calculator == score_factors_of(request[w].custom_weights)
       IN  IF calculator.error # "none"
           THEN Reply(w, Response(0, calculator.error, <<>>, <<>>)) /\ UNCHANGED local
           ELSE LET result ==
                        calculate_result(customer_of(w), db[customer_of(w)], calculator)
                IN  IF request[w].commit
                    THEN /\ local' = [local EXCEPT ![w] =
                                [NoLocal EXCEPT !.calculator = <<calculator>>,
                                                !.result = <<result>>]]
                         /\ pc' = [pc EXCEPT ![w] = "update"]
                         /\ UNCHANGED response
                    ELSE /\ local' = [local EXCEPT ![w] =
                                [NoLocal EXCEPT !.calculator = <<calculator>>,
                                                !.result = <<result>>]]
                         /\ Reply(w, Response(0, "", <<result>>, <<>>))
    /\ UNCHANGED <<db, cibil_scores, request>>

\* DynamicCibilScoreCalculator(customer, custom_weights)
\*     .get_comprehensive_score_breakdown()
BreakdownCall(w) ==
    /\ pc[w] = "accepted"
    /\ request[w].op = "get_comprehensive_score_breakdown"
    /\ LET calculator == score_factors_of(request[w].custom_weights)
       IN  IF calculator.error # "none"
           THEN Reply(w, Response(0, calculator.error, <<>>, <<>>)) /\ UNCHANGED local
           ELSE /\ local' = [local EXCEPT ![w] = [NoLocal EXCEPT !.calculator = <<calculator>>]]
                /\ \E breakdown \in get_comprehensive_score_breakdown(db[customer_of(w)],
                                                                      calculator) :
                        Reply(w, Response(0, "", <<>>, <<breakdown>>))
    /\ UNCHANGED <<db, cibil_scores, request>>

----------------------------------------------------------------------------
(* The system: rows are added to the stored history and calls arrive at    *)
(* the workers, which serve them concurrently                              *)

\* PAN of no registered customer (get_object_or_404 raises Http404)
UnknownPan == "ZZZZZ0000Z"

BogusWeights == [bogus_factor |-> 1000]

SystemCalls ==
    {Call("process_cibil_score", "c1", NoWeights, FALSE),
     Call("process_cibil_score", "c2", NoWeights, FALSE),
     Call("process_cibil_score", "c1", ZeroWeights, FALSE),
     Call("process_cibil_score", "c1", BogusWeights, FALSE),
     Call("process_cibil_score", "", NoWeights, FALSE),
     Call("process_cibil_score", UnknownPan, NoWeights, FALSE),
     Call("calculate_dynamic_cibil_score", "c1", NoWeights, TRUE),
     Call("calculate_dynamic_cibil_score", "c2", NoWeights, TRUE),
     Call("calculate_dynamic_cibil_score", "c1", NoWeights, FALSE),
     Call("calculate_dynamic_cibil_score", "c1", ZeroWeights, TRUE),
     Call("get_comprehensive_score_breakdown", "c1", NoWeights, FALSE)}

\* the rows of every customer's four tables
StoredRows(d) ==
    SumOver(Customers,
            [c \in Customers |->
                Total(d[c].payment_history) + Total(d[c].credit_cards)
                + Total(d[c].loans) + Total(d[c].bank_accounts)])

\* a call is made to an idle worker
Submit(w, call) ==
    /\ pc[w] = "idle"
    /\ Len(cibil_scores) + Cardinality({v \in Workers : pc[v] # "idle"}) < MaxScores
    /\ request' = [request EXCEPT ![w] = call]
    /\ pc' = [pc EXCEPT ![w] = "accepted"]
    /\ local' = [local EXCEPT ![w] = NoLocal]
    /\ UNCHANGED <<db, cibil_scores, response>>

\* views.py: PaymentHistoryViewSet, CreditCardViewSet, LoanViewSet and
\* BankAccountViewSet create a row (generics.ListCreateAPIView)
AddPayment(c, r) ==
    /\ StoredRows(db) < MaxStored
    /\ db' = [db EXCEPT ![c].payment_history = AddRow(@, r)]
    /\ UNCHANGED <<cibil_scores, request, pc, local, response>>

AddCard(c, r) ==
    /\ StoredRows(db) < MaxStored
    /\ db' = [db EXCEPT ![c].credit_cards = AddRow(@, r)]
    /\ UNCHANGED <<cibil_scores, request, pc, local, response>>

AddLoan(c, r) ==
    /\ StoredRows(db) < MaxStored
    /\ db' = [db EXCEPT ![c].loans = AddRow(@, r)]
    /\ UNCHANGED <<cibil_scores, request, pc, local, response>>

AddAccount(c, r) ==
    /\ StoredRows(db) < MaxStored
    /\ db' = [db EXCEPT ![c].bank_accounts = AddRow(@, r)]
    /\ UNCHANGED <<cibil_scores, request, pc, local, response>>

Init ==
    /\ db = [c \in Customers |-> EmptyHistory]
    /\ cibil_scores = <<>>
    /\ request = [w \in Workers |-> NoCall]
    /\ pc = [w \in Workers |-> "idle"]
    /\ local = [w \in Workers |-> NoLocal]
    /\ response = [w \in Workers |-> NoResponse]

Serve(w) ==
    \/ ProcessRequest(w)
    \/ CalculateCall(w)
    \/ BreakdownCall(w)
    \/ UpdateLatest(w)
    \/ SaveUpdate(w)
    \/ Insert(w)
    \/ Respond(w)

\* the rows added while the system runs: to the history of c1
AddRows ==
    \/ AddPayment("c1", [payment_status |-> "MISSED", payment_date |-> 30])
    \/ AddCard("c1", Card(TRUE, 120000, 0, 400, 400))
    \/ AddLoan("c1", Loan("ACTIVE", "HOME_LOAN", 2000, 400))
    \/ AddAccount("c1", [is_active |-> TRUE, account_opened_date |-> 4000])

\* one worker: calls are served one after the other
Next ==
    \/ \E call \in SystemCalls : Submit("w1", call)
    \/ Serve("w1")
    \/ AddRows

Spec == Init /\ [][Next]_vars

----------------------------------------------------------------------------
(* Two workers serve calls concurrently *)

ConcurrentCalls ==
    {Call("process_cibil_score", "c1", NoWeights, FALSE),
     Call("process_cibil_score", "c2", NoWeights, FALSE),
     Call("calculate_dynamic_cibil_score", "c1", NoWeights, TRUE),
     Call("get_comprehensive_score_breakdown", "c1", NoWeights, FALSE)}

NextConcurrent ==
    \/ \E w \in Workers, call \in ConcurrentCalls : Submit(w, call)
    \/ \E w \in Workers : Serve(w) \/ WaitForLock(w) \/ ResumeUpdate(w)

SpecConcurrent == Init /\ [][NextConcurrent]_vars

----------------------------------------------------------------------------
(* The engine: one call on a stored history, the history and the weights   *)
(* drawn from bounded sets                                                 *)

\* the bag of n rows r
NOf(RowSet, r, n) == [EmptyBag(RowSet) EXCEPT ![r] = n]

PaymentBags == BagsUpTo(PaymentRows, MaxPayments)
CardBags == BagsUpTo(CardRows, MaxCards)
LoanBags == BagsUpTo(LoanRows, MaxLoans)
AccountBags == BagsUpTo(AccountRows, MaxAccounts)

NoPayments == EmptyBag(PaymentRows)
NoCards == EmptyBag(CardRows)
NoLoans == EmptyBag(LoanRows)
NoAccounts == EmptyBag(AccountRows)

RecentOnTime == NOf(PaymentRows, [payment_status |-> "ON_TIME", payment_date |-> 30], 3)
RecentMissed == NOf(PaymentRows, [payment_status |-> "MISSED", payment_date |-> 30], 3)

\* an idle card with a large limit; an old card and a new one (the limit
\* grew by half within the year)
IdleCard == NOf(CardRows, Card(TRUE, 120000, 0, 400, 400), 1)
GrownCards ==
    AddRow(NOf(CardRows, Card(TRUE, 40000, 600, 400, 400), 1),
           Card(TRUE, 20000, 1500, 30, 30))
BigCard == NOf(CardRows, Card(TRUE, 600000, 30000, 400, 400), 1)

ThreeLoans ==
    AddRow(AddRow(NOf(LoanRows, Loan("ACTIVE", "HOME_LOAN", 2000, 400), 1),
                  Loan("ACTIVE", "CAR_LOAN", 2000, 400)),
           Loan("ACTIVE", "PERSONAL_LOAN", 2000, 400))
OldAccount == NOf(AccountRows, [is_active |-> TRUE, account_opened_date |-> 4000], 1)

EngineHistories ==
    {History(p, c, NoLoans, NoAccounts) :
        p \in PaymentBags, c \in {NoCards, IdleCard}}
    \cup {History(p, c, NoLoans, NoAccounts) :
        p \in {NoPayments, RecentMissed}, c \in CardBags}
    \cup {History(NoPayments, NoCards, l, a) : l \in LoanBags, a \in AccountBags}
    \cup {History(NoPayments, BigCard, l, a) :
        l \in LoanBags, a \in {NoAccounts, OldAccount}}
    \cup {History(p, c, l, a) :
        p \in {NoPayments, RecentOnTime, RecentMissed},
        c \in {NoCards, IdleCard, GrownCards},
        l \in {NoLoans, ThreeLoans}, a \in {NoAccounts, OldAccount}}

NegativeWeights == [payment_history |-> 0 - 50]

EngineCalls ==
    {Call("process_cibil_score", "c1", cw, FALSE) :
        cw \in {NoWeights, Weights(10000, 0, 0, 0, 0), ZeroWeights, NegativeWeights}}
    \cup {Call("calculate_dynamic_cibil_score", "c1", NoWeights, TRUE)}
    \cup {Call("calculate_dynamic_cibil_score", "c1", cw, FALSE) :
            cw \in {NoWeights, PercentWeights, [credit_utilization |-> 50], NegativeWeights}}
    \cup {Call("get_comprehensive_score_breakdown", "c1", cw, FALSE) :
            cw \in {NoWeights, PercentWeights}}

InitOneCall(histories, calls) ==
    /\ db \in {[c \in Customers |-> IF c = "c1" THEN h ELSE EmptyHistory] : h \in histories}
    /\ cibil_scores = <<>>
    /\ request \in {[w \in Workers |-> IF w = "w1" THEN call ELSE NoCall] : call \in calls}
    /\ pc = [w \in Workers |-> IF w = "w1" THEN "accepted" ELSE "idle"]
    /\ local = [w \in Workers |-> NoLocal]
    /\ response = [w \in Workers |-> NoResponse]

InitEngine == InitOneCall(EngineHistories, EngineCalls)

NextEngine == Serve("w1")

SpecEngine == InitEngine /\ [][NextEngine]_vars

----------------------------------------------------------------------------
(* The weights: one call with the weights drawn from a wide set *)

WeightValues == {0, 35, 100, 2500, 10000}

WideWeights ==
    [FactorNames -> WeightValues]
    \cup {NoWeights, [payment_history |-> 0], [bogus_factor |-> 1000],
          [payment_history |-> 10000, bogus_factor |-> 1000]}

WeightCalls ==
    {Call("calculate_dynamic_cibil_score", "c1", cw, FALSE) : cw \in WideWeights}
    \cup {Call(op, "c1", cw, TRUE) :
            op \in {"process_cibil_score", "calculate_dynamic_cibil_score",
                    "get_comprehensive_score_breakdown"},
            cw \in {NoWeights, ZeroWeights, PercentWeights, FractionWeights}}

InitWeights ==
    InitOneCall({History(RecentOnTime, GrownCards, ThreeLoans, OldAccount)}, WeightCalls)

SpecWeights == InitWeights /\ [][NextEngine]_vars


----------------------------------------------------------------------------
(* The scorers: one call of the calculator with the default weights on a   *)
(* history drawn from families that put each scorer at its thresholds      *)

\* the days at which years_of_history reaches 1, 3, 5, 7 and 10 years, and
\* the day before each
ThresholdDays == {0, 365, 366, 1095, 1096, 1826, 1827, 2556, 2557, 3652, 3653}

ScorerHistories ==
    LET \* payments of every status
        StatusRows == [payment_status : PaymentStatuses, payment_date : {30}]
        \* cards of limit 20000 with a balance at each threshold of the
        \* utilization ratio and just above it, a card of limit 0 and a card
        \* that is not active
        ThresholdCardRows ==
            {Card(TRUE, 20000, b, 400, 400) :
                b \in {0, 1000, 1001, 2000, 2001, 6000, 6001, 10000, 10001,
                       14000, 14001, 18000, 18001, 25000}}
            \cup {Card(TRUE, 0, 0, 400, 400), Card(TRUE, 0, 500, 400, 400),
                  Card(FALSE, 20000, 19000, 400, 400)}
        \* at most one card, one closed loan and one closed bank account,
        \* each as old as one of the thresholds
        AgedCards ==
            {NoCards}
            \cup {NOf(CardRows \cup {Card(FALSE, 20000, 0, d, 400)},
                      Card(FALSE, 20000, 0, d, 400), 1) : d \in ThresholdDays}
        AgedLoans ==
            {NoLoans}
            \cup {NOf(LoanRows \cup {Loan("CLOSED", "GOLD_LOAN", d, 400)},
                      Loan("CLOSED", "GOLD_LOAN", d, 400), 1) : d \in ThresholdDays}
        AgedAccounts ==
            {NoAccounts}
            \cup {NOf(AccountRows \cup {[is_active |-> FALSE, account_opened_date |-> d]},
                      [is_active |-> FALSE, account_opened_date |-> d], 1) :
                    d \in ThresholdDays}
        \* loans of every type and status
        MixLoanRows ==
            {Loan("ACTIVE", t, 2000, 400) : t \in LoanTypes}
            \cup {Loan("CLOSED", "HOME_LOAN", 2000, 400),
                  Loan("OVERDUE", "CAR_LOAN", 2000, 400),
                  Loan("DEFAULTED", "PERSONAL_LOAN", 2000, 400)}
        \* no card, an active card, a card that is not active; the same of
        \* bank accounts
        MixCards ==
            {NoCards, NOf(CardRows, Card(TRUE, 20000, 0, 400, 400), 1),
             NOf(CardRows, Card(FALSE, 20000, 0, 400, 400), 1)}
        MixAccounts ==
            {NoAccounts,
             NOf(AccountRows, [is_active |-> TRUE, account_opened_date |-> 4000], 1),
             NOf(AccountRows, [is_active |-> FALSE, account_opened_date |-> 4000], 1)}
    IN  {History(p, NoCards, NoLoans, NoAccounts) : p \in BagsUpTo(StatusRows, MaxPayments)}
        \cup {History(NoPayments, c, NoLoans, NoAccounts) :
                c \in BagsUpTo(ThresholdCardRows, MaxCards)}
        \cup {History(NoPayments, c, l, a) :
                c \in AgedCards, l \in AgedLoans, a \in AgedAccounts}
        \cup {History(NoPayments, c, l, a) :
                c \in MixCards, l \in BagsUpTo(MixLoanRows, MaxLoans), a \in MixAccounts}

ScorerCalls ==
    {Call("calculate_dynamic_cibil_score", "c1", NoWeights, FALSE),
     Call("get_comprehensive_score_breakdown", "c1", NoWeights, FALSE)}

InitScorers == InitOneCall(ScorerHistories, ScorerCalls)

NextScorers == CalculateCall("w1") \/ BreakdownCall("w1")

SpecScorers == InitScorers /\ [][NextScorers]_vars

----------------------------------------------------------------------------
(* Pairs of calls: w1 and w2 each serve one call, on two histories that    *)
(* are to be compared (c1 and c2) or on one history with different weights *)

PairInput(h1, h2, call1, call2) == [h1 |-> h1, h2 |-> h2, call1 |-> call1, call2 |-> call2]

DefaultCall(c) == Call("calculate_dynamic_cibil_score", c, NoWeights, FALSE)

\* two calls on the history of c1 that differ in the weights (and in the
\* method called)
WeightedCalls ==
    {Call(op, "c1", cw, FALSE) :
        op \in {"calculate_dynamic_cibil_score", "get_comprehensive_score_breakdown"},
        cw \in {NoWeights, PercentWeights, Weights(10000, 0, 0, 0, 0),
                [credit_utilization |-> 50]}}

PairInputs ==
    LET PairPaymentRows ==
            [payment_status : {"ON_TIME", "LATE_31_60", "DEFAULTED"}, payment_date : {30}]
        \* cards used to 7.5 %, just above 10 %, 30 %, just above 50 % and 125 %
        PairCardRows ==
            {Card(TRUE, 2000, b, 400, 400) : b \in {150, 201, 600, 1001, 2500}}
        \* loans and cards created 180 days ago (the last day that counts as
        \* recent) and the day before; the loan that is recent is closed, the
        \* card that is recent is not active
        RecentLoan == Loan("CLOSED", "GOLD_LOAN", 2000, 180)
        OlderLoan == Loan("ACTIVE", "HOME_LOAN", 2000, 181)
        RecencyCardRows ==
            {Card(FALSE, 20000, 0, 400, 180), Card(TRUE, 20000, 0, 400, 181)}
        RecencyLoans ==
            {NOf({RecentLoan, OlderLoan}, RecentLoan, n) : n \in 0 .. MaxLoans}
            \cup {NOf({RecentLoan, OlderLoan}, OlderLoan, 1),
                  AddRow(NOf({RecentLoan, OlderLoan}, OlderLoan, 1), RecentLoan)}
        RecencyHistories ==
            {History(NoPayments, c, l, NoAccounts) :
                c \in BagsUpTo(RecencyCardRows, MaxCards), l \in RecencyLoans}
    IN  {PairInput(History(p1, NoCards, NoLoans, NoAccounts),
                   History(p2, NoCards, NoLoans, NoAccounts),
                   DefaultCall("c1"), DefaultCall("c2")) :
            p1 \in BagsUpTo(PairPaymentRows, MaxPayments),
            p2 \in BagsUpTo(PairPaymentRows, MaxPayments)}
        \cup {PairInput(History(NoPayments, c1, NoLoans, NoAccounts),
                        History(NoPayments, c2, NoLoans, NoAccounts),
                        DefaultCall("c1"), DefaultCall("c2")) :
                c1 \in BagsUpTo(PairCardRows, MaxCards),
                c2 \in BagsUpTo(PairCardRows, MaxCards)}
        \cup {PairInput(h1, h2, DefaultCall("c1"), DefaultCall("c2")) :
                h1 \in RecencyHistories, h2 \in RecencyHistories}
        \cup {PairInput(History(p, c, l, a), EmptyHistory, call1, call2) :
                p \in {NoPayments, RecentOnTime, RecentMissed},
                c \in {NoCards, IdleCard, GrownCards},
                l \in {NoLoans, ThreeLoans}, a \in {NoAccounts, OldAccount},
                call1 \in WeightedCalls, call2 \in WeightedCalls}

InitPairs ==
    /\ \E i \in PairInputs :
        /\ db = [c \in Customers |-> IF c = "c1" THEN i.h1 ELSE i.h2]
        /\ request = [w \in Workers |-> IF w = "w1" THEN i.call1 ELSE i.call2]
    /\ cibil_scores = <<>>
    /\ pc = [w \in Workers |-> "accepted"]
    /\ local = [w \in Workers |-> NoLocal]
    /\ response = [w \in Workers |-> NoResponse]

NextPairs == \E w \in Workers : CalculateCall(w) \/ BreakdownCall(w)

SpecPairs == InitPairs /\ [][NextPairs]_vars

----------------------------------------------------------------------------
(* The behavioral adjustments: w1 and w2 each serve one call, on card      *)
(* tables that put the underutilization penalty and the growth adjustment  *)
(* at their thresholds                                                     *)

AdjustmentInputs ==
    LET BreakdownOf(c) == Call("get_comprehensive_score_breakdown", c, NoWeights, FALSE)
        \* one active card whose limit is at a limit threshold or 100 above
        \* it, with a balance of 0 or at 1 %, 2 % or 5 % of the limit or one
        \* below
        IdleRows ==
            {Card(TRUE, limit, (k * limit) \div 100 - d, 400, 400) :
                limit \in {25000, 25100, 50000, 50100, 100000, 100100},
                k \in {1, 2, 5}, d \in {0, 1}}
            \cup {Card(TRUE, limit, 0, 400, 400) :
                    limit \in {25000, 25100, 50000, 50100, 100000, 100100}}
        \* cards to be held together: two halves of a limit above 100000, a
        \* card that is not active and a card without limit
        SharedRows ==
            {Card(TRUE, 50050, 1000, 400, 400), Card(TRUE, 50050, 3000, 400, 400),
             Card(FALSE, 100100, 0, 400, 400), Card(TRUE, 0, 0, 400, 400)}
        IdleHistories ==
            {History(NoPayments, NOf(IdleRows, r, 1), NoLoans, NoAccounts) : r \in IdleRows}
            \cup {History(NoPayments, c, NoLoans, NoAccounts) :
                    c \in BagsUpTo(SharedRows, MaxCards)}
        \* a card of limit 10000 created 365 days ago (the first day that
        \* counts as a year old), one created the day after and one that is
        \* older but not active; cards created since that raise the limit by
        \* 4 %, 5 %, 10 %, 50 %, 80 % or 200 %, or by just less or more
        GrowthRows ==
            {Card(TRUE, 10000, 0, 400, 365), Card(TRUE, 10000, 0, 400, 364),
             Card(FALSE, 10000, 0, 400, 400)}
            \cup {Card(TRUE, limit, 0, 100, 100) :
                    limit \in {400, 499, 500, 999, 1000, 5000, 5001, 8000, 8001, 20000}}
        GrowthHistories ==
            {History(NoPayments, c, NoLoans, NoAccounts) :
                c \in BagsUpTo(GrowthRows, MaxCards)}
    IN  {PairInput(h1, h2, BreakdownOf("c1"), BreakdownOf("c2")) :
            h1 \in IdleHistories, h2 \in IdleHistories}
        \cup {PairInput(h, EmptyHistory, call, BreakdownOf("c2")) :
                h \in GrowthHistories, call \in {DefaultCall("c1"), BreakdownOf("c1")}}

InitAdjustments ==
    /\ \E i \in AdjustmentInputs :
        /\ db = [c \in Customers |-> IF c = "c1" THEN i.h1 ELSE i.h2]
        /\ request = [w \in Workers |-> IF w = "w1" THEN i.call1 ELSE i.call2]
    /\ cibil_scores = <<>>
    /\ pc = [w \in Workers |-> "accepted"]
    /\ local = [w \in Workers |-> NoLocal]
    /\ response = [w \in Workers |-> NoResponse]

NextAdjustments == \E w \in Workers : CalculateCall(w) \/ BreakdownCall(w)

SpecAdjustments == InitAdjustments /\ [][NextAdjustments]_vars

----------------------------------------------------------------------------
(* The totals: one call (process_cibil_score, calculate_dynamic_cibil_score *)
(* or get_comprehensive_score_breakdown) with weights that do and do not   *)
(* round evenly, on histories whose factor scores go from poor to perfect  *)

TotalHistories ==
    LET RecentRows ==
            [payment_status : {"ON_TIME", "LATE_1_30", "MISSED"}, payment_date : {30}]
        \* a card used to 7.5 % (the utilization score is 100), to 25 % and
        \* to 65 %
        UsedCard(balance) == NOf(CardRows, Card(TRUE, 20000, balance, 400, 400), 1)
    IN  {History(p, c, l, a) :
            p \in BagsUpTo(RecentRows, MaxPayments),
            c \in {NoCards, IdleCard, GrownCards, UsedCard(1500), UsedCard(5000),
                   UsedCard(13000)},
            l \in {NoLoans, ThreeLoans}, a \in {NoAccounts, OldAccount}}

\* no weights, 35/25/15/15/10, 30/30/0/0/10 (3/7, 3/7 and 1/7 of the total),
\* a single weight of 50 % beside the defaults, and payment history alone
TotalWeights ==
    {NoWeights, PercentWeights, Weights(3000, 3000, 0, 0, 1000),
     [credit_utilization |-> 5000], Weights(10000, 0, 0, 0, 0)}

TotalCalls ==
    {Call(op, "c1", cw, FALSE) :
        op \in {"process_cibil_score", "calculate_dynamic_cibil_score",
                "get_comprehensive_score_breakdown"},
        cw \in TotalWeights}

InitTotals == InitOneCall(TotalHistories, TotalCalls)

SpecTotals == InitTotals /\ [][NextEngine]_vars

----------------------------------------------------------------------------
(* The requests: one worker serves calls one after the other, among them   *)
(* requests that the validation of process_cibil_score rejects             *)

RequestCalls ==
    {Call("process_cibil_score", pan, NoWeights, FALSE) : pan \in {"c1", "c2", ""}}
    \cup {Call("process_cibil_score", "c1", cw, FALSE) :
            cw \in {Weights(10000, 0, 0, 0, 0), BogusWeights,
                    [payment_history |-> 5000, bogus_factor |-> 1000],
                    [payment_history |-> 0 - 1], [new_credit |-> 100 * 100 + 1]}}
    \cup {Call("calculate_dynamic_cibil_score", "c1", NoWeights, commit) :
            commit \in BOOLEAN}
    \cup {Call("get_comprehensive_score_breakdown", "c1", NoWeights, FALSE)}

NextRequests ==
    \/ \E call \in RequestCalls : Submit("w1", call)
    \/ Serve("w1")

SpecRequests == Init /\ [][NextRequests]_vars

----------------------------------------------------------------------------
(* Properties *)

Range(seq) == {seq[i] : i \in 1 .. Len(seq)}

\* the rows of a customer, and those of them marked latest
RowsOf(c) == {i \in RowIds : cibil_scores[i].customer = c}
LatestOf(c) == {i \in RowsOf(c) : cibil_scores[i].is_latest}

Quiet == \A w \in Workers : pc[w] = "idle"

\* the results of calculate_dynamic_cibil_score and the breakdowns that
\* the workers hold or have returned
Results == UNION {Range(local[w].result) \cup Range(response[w].result) : w \in Workers}
Breakdowns == UNION {Range(response[w].breakdown) : w \in Workers}
Calculators == UNION {Range(local[w].calculator) : w \in Workers}

\* C1: once every concurrent calculation has finished, at most one
\* CibilScore record of each customer has is_latest = True.  (SpecConcurrent;
\* the code does not keep this.)
C1_AtMostOneLatest ==
    Quiet => \A c \in Customers : Cardinality(LatestOf(c)) <= 1

\* C2: after calculations served one after the other, a customer with
\* records has exactly one latest record, the one inserted last, and every
\* earlier record of the customer has is_latest = False.
C2_SequentialLatestIsLast ==
    Quiet =>
        \A c \in Customers :
            RowsOf(c) # {} =>
                LatestOf(c) = {CHOOSE i \in RowsOf(c) : \A j \in RowsOf(c) : j <= i}

\* three calculations for c1 have been persisted, the first two are demoted
C2_Witness ==
    /\ Quiet
    /\ Cardinality(RowsOf("c1")) = 3
    /\ LatestOf("c1") = {3}

\* C3: base and final scores of both scoring paths lie within the dynamic
\* range, whatever the 0-100 total is, and range_width = max_score - min_score.
WithinRange(score, dynamic_range) ==
    dynamic_range.min_score <= score /\ score <= dynamic_range.max_score

C3_ScoresWithinRange ==
    /\ \A r \in Results :
        /\ WithinRange(r.base_score, r.dynamic_range)
        /\ WithinRange(r.final_score, r.dynamic_range)
        /\ r.cibil_score_obj.score = r.final_score
        /\ r.dynamic_range.range_width = r.dynamic_range.max_score - r.dynamic_range.min_score
    /\ \A b \in Breakdowns :
        /\ WithinRange(b.base_cibil_score, b.dynamic_range)
        /\ WithinRange(b.final_cibil_score, b.dynamic_range)
        /\ b.dynamic_range.range_width = b.dynamic_range.max_score - b.dynamic_range.min_score

\* an adjusted total above 100 has been converted
C3_Witness ==
    \E r \in Range(response["w1"].result) :
        /\ r.adjusted_final_score > 100 * 100000
        /\ WithinRange(r.final_score, r.dynamic_range)

\* C4: every dynamic range has 150 <= min_score <= max_score <= 1200.
C4_RangeBounds ==
    \A r \in Results :
        /\ r.dynamic_range.min_score >= 150
        /\ r.dynamic_range.max_score <= 1200
        /\ r.dynamic_range.min_score <= r.dynamic_range.max_score
        /\ r.dynamic_range.range_width >= 0

\* the widest range (multiplier 1.45) and the floor of 150 in force
C4_Witness ==
    \E r \in Results :
        /\ r.dynamic_range.range_multiplier = 1450
        /\ r.dynamic_range.min_score = 150
        /\ r.dynamic_range.max_score = 1180

\* C5: for nonnegative custom weights of a positive total the normalized
\* weights are a mapping over exactly the five factor names, each in [0, 1],
\* that sum to 1 (the weights are the fractions weights[k] / total).
NonNegative(custom_weights) == \A k \in DOMAIN custom_weights : custom_weights[k] >= 0

C5_NormalizedWeights ==
    \A w \in Workers :
        \A sf \in Range(local[w].calculator) :
            NonNegative(request[w].custom_weights) =>
                /\ DOMAIN sf.weights = FactorNames
                /\ sf.total > 0
                /\ \A k \in FactorNames : 0 <= sf.weights[k] /\ sf.weights[k] <= sf.total
                /\ Total(sf.weights) = sf.total

\* five supplied weights that total 2.0 (payment_history 100 %) have been
\* normalized: payment_history is 1.0 / 2.0
C5_Witness ==
    \E sf \in Range(local["w1"].calculator) :
        /\ DOMAIN request["w1"].custom_weights = FactorNames
        /\ sf.total = 20000
        /\ sf.weights.payment_history = 10000

\* C6: each of the five factor scores is within [0, 100].
FactorScoreFields ==
    {"payment_history_score", "credit_utilization_score", "credit_history_length_score",
     "credit_mix_score", "new_credit_score"}

C7_MultiplierWithinClaimed ==
    \A r \in Results : 8000 <= r.behavioral_multiplier /\ r.behavioral_multiplier <= 12000

\* C7, amended: the behavioral multiplier lies within [0.7833, 1.1031], the
\* rounded products 0.85 * 0.95 * 0.97 and 1.05 * 1.03 * 1.02.
C7_MultiplierBounds ==
    /\ \A r \in Results : 7833 <= r.behavioral_multiplier /\ r.behavioral_multiplier <= 11031
    /\ \A b \in Breakdowns :
        /\ 7833 <= b.behavioral_adjustments.total_multiplier
        /\ b.behavioral_adjustments.total_multiplier <= 11031

\* an idle card of a large limit, no other account and missed recent
\* payments: the multiplier is 0.7833
C7_Witness == \E r \in Results : r.behavioral_multiplier = 7833

\* C8: a call whose five weights are all 0 ends with the division by the
\* zero total raising (a 500 response from process_cibil_score); it returns
\* no score and leaves the cibil_scores table as it was.
ZeroWeightCall(w) ==
    /\ pc[w] = "accepted"
    /\ request[w].custom_weights = ZeroWeights
    /\ request[w].pan \in Customers

C8_ZeroWeightsFail ==
    [][\A w \in Workers :
        (ZeroWeightCall(w) /\ pc'[w] # pc[w]) =>
            /\ pc'[w] = "idle"
            /\ response'[w].error = "ZeroDivisionError"
            /\ response'[w].result = <<>>
            /\ response'[w].breakdown = <<>>
            /\ (request[w].op = "process_cibil_score") = (response'[w].status = 500)
            /\ local'[w].calculator = <<>>
            /\ cibil_scores' = cibil_scores]_vars

\* process_cibil_score has answered 500 to all-zero weights, with a record
\* of the customer in the table
C8_Witness ==
    /\ pc["w1"] = "idle"
    /\ request["w1"].custom_weights = ZeroWeights
    /\ response["w1"].status = 500
    /\ response["w1"].error = "ZeroDivisionError"
    /\ RowsOf(request["w1"].pan) # {}

\* C9: a call of calculate_dynamic_cibil_score with its default arguments
\* (commit = True) or of get_comprehensive_score_breakdown leaves the
\* cibil_scores table unchanged.  (The code does not keep this.)
EngineCall(w) ==
    \/ request[w].op = "calculate_dynamic_cibil_score" /\ request[w].commit
    \/ request[w].op = "get_comprehensive_score_breakdown"

C9_EngineWritesNothing ==
    [][\A w \in Workers :
        (EngineCall(w) /\ pc[w] # "idle" /\ pc'[w] # pc[w]) =>
            cibil_scores' = cibil_scores]_vars

\* C10: every persisted score is between 300 and 900.  (The code does not
\* keep this.)
C10_PersistedScoreBounds ==
    \A i \in RowIds : 300 <= cibil_scores[i].score /\ cibil_scores[i].score <= 900

----------------------------------------------------------------------------
(* Properties of the scorers (SpecScorers: db is the history the call of   *)
(* w1 was computed on)                                                     *)

\* the five raw factor scores that the calls hold or have returned, each with
\* the customer it was computed for
RawScores ==
    {[customer |-> r.cibil_score_obj.customer,
      payment_history |-> r.cibil_score_obj.payment_history_score,
      credit_utilization |-> r.cibil_score_obj.credit_utilization_score,
      credit_history_length |-> r.cibil_score_obj.credit_history_length_score,
      credit_mix |-> r.cibil_score_obj.credit_mix_score,
      new_credit |-> r.cibil_score_obj.new_credit_score] : r \in Results}
    \cup UNION {{[customer |-> request[w].pan,
                  payment_history |-> b.score_factors.payment_history.raw_score,
                  credit_utilization |-> b.score_factors.credit_utilization.raw_score,
                  credit_history_length |-> b.score_factors.credit_history_length.raw_score,
                  credit_mix |-> b.score_factors.credit_mix.raw_score,
                  new_credit |-> b.score_factors.new_credit.raw_score] :
                    b \in Range(response[w].breakdown)} : w \in Workers}

\* how many payments of customer c have a status in S
PaymentsWith(c, S) ==
    LET payments == db[c].payment_history
        rows == {r \in DOMAIN payments : r.payment_status \in S}
    IN  SumOver(rows, [r \in rows |-> payments[r]])

\* total_payments * (100 * on_time_ratio - 30 * late_ratio - 50 * missed_ratio),
\* floored at 0
ClaimedPaymentPoints(c) ==
    Max(0, 100 * PaymentsWith(c, {"ON_TIME"})
           - 30 * PaymentsWith(c, {"LATE_1_30", "LATE_31_60", "LATE_61_90", "LATE_90_PLUS"})
           - 50 * PaymentsWith(c, {"MISSED", "DEFAULTED"}))

\* C11, as claimed: the payment-history score is 50.0 without payment
\* records and otherwise equals max(0, 100 * on_time_ratio - 30 * late_ratio
\* - 50 * missed_ratio).  (The code returns that value rounded to 2 decimals;
\* see C11_PaymentScoreRounded.)
C11_PaymentScoreExact ==
    \A s \in RawScores :
        LET total == PaymentsWith(s.customer, PaymentStatuses)
        IN  /\ total = 0 => s.payment_history = 5000
            /\ total > 0 => s.payment_history * total = 100 * ClaimedPaymentPoints(s.customer)

\* C11, amended: the payment-history score is 50.0 without payment records
\* and otherwise max(0, 100 * on_time_ratio - 30 * late_ratio - 50 *
\* missed_ratio) rounded to 2 decimals (within 0.005 of it, a multiple of
\* 0.01), never negative.
C11_PaymentScoreRounded ==
    \A s \in RawScores :
        LET total == PaymentsWith(s.customer, PaymentStatuses)
            gap == s.payment_history * total - 100 * ClaimedPaymentPoints(s.customer)
        IN  /\ s.payment_history >= 0
            /\ total = 0 => s.payment_history = 5000
            /\ total > 0 => 2 * gap <= total /\ 2 * gap >= 0 - total

\* one on-time and two late payments of three: 100/3 - 20 = 13.33...,
\* returned as 13.33
C11_Witness ==
    \E s \in RawScores :
        /\ PaymentsWith(s.customer, PaymentStatuses) = 3
        /\ PaymentsWith(s.customer, {"ON_TIME"}) = 1
        /\ PaymentsWith(s.customer, {"MISSED", "DEFAULTED"}) = 0
        /\ s.payment_history = 1333

\* total balance and total limit of the active cards of customer c
ActiveBalance(c) == SumBalance(db[c], ActiveCards(db[c]))
ActiveLimit(c) == SumLimit(db[c], ActiveCards(db[c]))

\* the buckets of C14: <<ratio up to (in %), score>>, and the score above
\* the last of them
ClaimedBuckets ==
    <<<<5, 95>>, <<10, 100>>, <<30, 85>>, <<50, 65>>, <<70, 45>>, <<90, 25>>>>

ClaimedUtilization(balance, limit) ==
    LET within == {i \in 1 .. Len(ClaimedBuckets) : 100 * balance <= ClaimedBuckets[i][1] * limit}
    IN  IF within = {} THEN 10
        ELSE ClaimedBuckets[CHOOSE i \in within : \A j \in within : i <= j][2]

\* C14: the credit-utilization score is 70.0 without an active card or with
\* a total active limit of 0, and otherwise the bucket of total balance /
\* total limit over the active cards (95, 100, 85, 65, 45, 25 up to 0.05,
\* 0.10, 0.30, 0.50, 0.70, 0.90, and 10 above).
C14_UtilizationBuckets ==
    \A s \in RawScores :
        LET cards == db[s.customer].credit_cards
            none == \A r \in DOMAIN cards : cards[r] > 0 => ~r.is_active
        IN  s.credit_utilization =
                IF none \/ ActiveLimit(s.customer) = 0 THEN 70 * 100
                ELSE 100 * ClaimedUtilization(ActiveBalance(s.customer), ActiveLimit(s.customer))

\* two active cards and a card that is not active: 4000 of 40000 is exactly
\* 0.10 and scores 100
C14_Witness ==
    \E s \in RawScores :
        /\ Count(db[s.customer].credit_cards, ActiveCards(db[s.customer])) = 2
        /\ ActiveLimit(s.customer) = 40000
        /\ ActiveBalance(s.customer) = 4000
        /\ s.credit_utilization = 10000

\* the days since loan_start_date, card_issued_date and account_opened_date
\* of every loan, card and bank account of customer c
AccountAges(c) ==
    {r.loan_start_date : r \in {x \in DOMAIN db[c].loans : db[c].loans[x] > 0}}
    \cup {r.card_issued_date :
            r \in {x \in DOMAIN db[c].credit_cards : db[c].credit_cards[x] > 0}}
    \cup {r.account_opened_date :
            r \in {x \in DOMAIN db[c].bank_accounts : db[c].bank_accounts[x] > 0}}

\* the steps of C15: <<years of history reached, score>>, and the score
\* below the last of them
ClaimedLengthSteps == <<<<10, 100>>, <<7, 85>>, <<5, 70>>, <<3, 55>>, <<1, 40>>>>

ClaimedLengthScore(days) ==
    \* days / 365.25 >= years
    LET reached == {i \in 1 .. Len(ClaimedLengthSteps) :
                        100 * days >= 36525 * ClaimedLengthSteps[i][1]}
    IN  IF reached = {} THEN 25
        ELSE ClaimedLengthSteps[CHOOSE i \in reached : \A j \in reached : i <= j][2]

\* C15: the credit-history-length score is 30.0 without any loan, card or
\* bank account, and otherwise 100, 85, 70, 55, 40 for at least 10, 7, 5, 3,
\* 1 years since the oldest loan start, card issue or account opening date,
\* and 25 below 1 year.
C15_HistoryLengthSteps ==
    \A s \in RawScores :
        LET ages == AccountAges(s.customer)
        IN  s.credit_history_length =
                IF ages = {} THEN 30 * 100
                ELSE 100 * ClaimedLengthScore(CHOOSE d \in ages : \A e \in ages : e <= d)

\* a card issued 366 days ago, a loan started 2556 days ago (a day short of
\* 7 years) and an account opened 1827 days ago: 70
C15_Witness ==
    \E s \in RawScores :
        /\ AccountAges(s.customer) = {366, 2556, 1827}
        /\ s.credit_history_length = 7000

\* customer c has an active loan of type t
HasActiveLoan(c, t) ==
    \E r \in DOMAIN db[c].loans :
        db[c].loans[r] > 0 /\ r.status = "ACTIVE" /\ r.loan_type = t

HasActiveCard(c) ==
    \E r \in DOMAIN db[c].credit_cards : db[c].credit_cards[r] > 0 /\ r.is_active

HasActiveAccount(c) ==
    \E r \in DOMAIN db[c].bank_accounts : db[c].bank_accounts[r] > 0 /\ r.is_active

\* C16: the credit-mix score is 30 for an active card, 20 for an active bank
\* account, 25, 15 and 10 for an active home, car and personal loan, added
\* up and capped at 100; it is 100 exactly when all five are present.
C16_CreditMixPoints ==
    \A s \in RawScores :
        LET c == s.customer
            points ==
                (IF HasActiveCard(c) THEN 30 ELSE 0)
                + (IF HasActiveAccount(c) THEN 20 ELSE 0)
                + (IF HasActiveLoan(c, "HOME_LOAN") THEN 25 ELSE 0)
                + (IF HasActiveLoan(c, "CAR_LOAN") THEN 15 ELSE 0)
                + (IF HasActiveLoan(c, "PERSONAL_LOAN") THEN 10 ELSE 0)
        IN  /\ s.credit_mix = 100 * (IF points > 100 THEN 100 ELSE points)
            /\ (s.credit_mix = 100 * 100) =
                    (/\ HasActiveCard(c) /\ HasActiveAccount(c)
                     /\ HasActiveLoan(c, "HOME_LOAN") /\ HasActiveLoan(c, "CAR_LOAN")
                     /\ HasActiveLoan(c, "PERSONAL_LOAN"))

\* an active card, an active car loan, an active education loan and a closed
\* home loan, and an account that is not active: 30 + 15
C16_Witness ==
    \E s \in RawScores :
        LET c == s.customer
        IN  /\ HasActiveCard(c) /\ ~HasActiveAccount(c)
            /\ db[c].bank_accounts # NoAccounts
            /\ HasActiveLoan(c, "CAR_LOAN") /\ HasActiveLoan(c, "EDUCATION_LOAN")
            /\ ~HasActiveLoan(c, "HOME_LOAN")
            /\ Total(db[c].loans) = 3
            /\ s.credit_mix = 4500

----------------------------------------------------------------------------
(* Properties of two calculations (SpecPairs) *)

\* C12: of two payment histories with the same number of payments (at least
\* one), the second with no more late and no more missed payments than the
\* first (late or missed payments turned into on-time ones), the second has
\* a payment-history score at least as high.
MoreOnTime(c, d) ==
    /\ PaymentsWith(c, PaymentStatuses) >= 1
    /\ PaymentsWith(d, PaymentStatuses) = PaymentsWith(c, PaymentStatuses)
    /\ PaymentsWith(d, LateStatuses) <= PaymentsWith(c, LateStatuses)
    /\ PaymentsWith(d, MissedStatuses) <= PaymentsWith(c, MissedStatuses)

C12_OnTimeNeverLowers ==
    \A s \in RawScores, t \in RawScores :
        MoreOnTime(s.customer, t.customer) => s.payment_history <= t.payment_history

\* three late payments against two on-time and one late: 0 rises to 56.67
C12_Witness ==
    \E s \in RawScores, t \in RawScores :
        /\ MoreOnTime(s.customer, t.customer)
        /\ PaymentsWith(s.customer, LateStatuses) = 3
        /\ PaymentsWith(t.customer, {"ON_TIME"}) = 2
        /\ s.payment_history = 0
        /\ t.payment_history = 5667

\* C13: of two utilization ratios r1 <= r2, both above 0.10 and over a
\* positive total limit, the score at r2 is not greater than the score at r1.
HigherUtilization(c, d) ==
    /\ ActiveLimit(c) > 0 /\ ActiveLimit(d) > 0
    /\ 10 * ActiveBalance(c) > ActiveLimit(c)
    /\ ActiveBalance(c) * ActiveLimit(d) <= ActiveBalance(d) * ActiveLimit(c)

C13_UtilizationNeverRaises ==
    \A s \in RawScores, t \in RawScores :
        HigherUtilization(s.customer, t.customer) =>
            t.credit_utilization <= s.credit_utilization

\* 30 % against 50.05 % on one card: 85 falls to 45
C13_Witness ==
    \E s \in RawScores, t \in RawScores :
        /\ HigherUtilization(s.customer, t.customer)
        /\ 100 * ActiveBalance(s.customer) = 30 * ActiveLimit(s.customer)
        /\ s.credit_utilization = 8500
        /\ t.credit_utilization = 4500

\* the loans plus the cards of customer c created in the last 180 days
RecentAccounts(c) ==
    LET loans == {r \in DOMAIN db[c].loans : r.created_at <= 180}
        cards == {r \in DOMAIN db[c].credit_cards : r.created_at <= 180}
    IN  SumOver(loans, [r \in loans |-> db[c].loans[r]])
        + SumOver(cards, [r \in cards |-> db[c].credit_cards[r]])

\* C17: the new-credit score is 100, 80, 60 for n = 0, 1, 2 loans plus cards
\* created in the last 180 days, 40 for n = 3 or 4 and 20 for n >= 5, and
\* of two histories the one with the larger n has no higher score.
C17_NewCreditSteps ==
    /\ \A s \in RawScores :
        LET n == RecentAccounts(s.customer)
        IN  s.new_credit =
                100 * (CASE n = 0 -> 100 [] n = 1 -> 80 [] n = 2 -> 60
                         [] n \in {3, 4} -> 40 [] OTHER -> 20)
    /\ \A s \in RawScores, t \in RawScores :
        RecentAccounts(s.customer) <= RecentAccounts(t.customer) =>
            t.new_credit <= s.new_credit

\* four recent accounts against five: 40 and 20
C17_Witness ==
    \E s \in RawScores, t \in RawScores :
        /\ RecentAccounts(s.customer) = 4 /\ s.new_credit = 4000
        /\ RecentAccounts(t.customer) = 5 /\ t.new_credit = 2000

\* what the call of worker w holds or has returned that C20 says the weights
\* do not reach: the raw factor scores, the behavioral multiplier and the
\* dynamic range, of a result and of a breakdown
ResultsOf(w) == Range(local[w].result) \cup Range(response[w].result)
BreakdownsOf(w) == Range(response[w].breakdown)

WeightFree(w) ==
    {[scores |-> <<r.cibil_score_obj.payment_history_score,
                   r.cibil_score_obj.credit_utilization_score,
                   r.cibil_score_obj.credit_history_length_score,
                   r.cibil_score_obj.credit_mix_score,
                   r.cibil_score_obj.new_credit_score>>,
      multiplier |-> r.behavioral_multiplier,
      range |-> r.dynamic_range] : r \in ResultsOf(w)}
    \cup {[scores |-> <<b.score_factors.payment_history.raw_score,
                        b.score_factors.credit_utilization.raw_score,
                        b.score_factors.credit_history_length.raw_score,
                        b.score_factors.credit_mix.raw_score,
                        b.score_factors.new_credit.raw_score>>,
           multiplier |-> b.behavioral_adjustments.total_multiplier,
           range |-> b.dynamic_range] : b \in BreakdownsOf(w)}

\* C20: two calculations over the same stored history that differ only in
\* the custom weights have the same five raw factor scores, the same
\* behavioral multiplier with its four sub-adjustments and the same dynamic
\* range.
C20_WeightsLeaveHistoryFigures ==
    \A w \in Workers, v \in Workers :
        request[w].pan = request[v].pan =>
            /\ \A a \in WeightFree(w), b \in WeightFree(v) : a = b
            /\ \A a \in BreakdownsOf(w), b \in BreakdownsOf(v) :
                a.behavioral_adjustments = b.behavioral_adjustments

\* a calculation with the default weights and a breakdown with all the
\* weight on payment_history, on one history: the converted scores differ
C20_Witness ==
    /\ request["w1"].pan = request["w2"].pan
    /\ request["w1"].custom_weights = NoWeights
    /\ request["w2"].custom_weights = Weights(10000, 0, 0, 0, 0)
    /\ \E r \in Range(response["w1"].result), b \in Range(response["w2"].breakdown) :
        /\ r.final_score # b.final_cibil_score
        /\ r.behavioral_multiplier # 10000
        /\ r.dynamic_range.range_multiplier # 1000

----------------------------------------------------------------------------
(* Properties of the weights (SpecWeights) *)

\* the default fractions of C18 and the fractions 0.35/0.25/0.15/0.15/0.10,
\* in 1/10000
ClaimedDefaults ==
    [payment_history |-> 3500, credit_utilization |-> 3000,
     credit_history_length |-> 1500, credit_mix |-> 1000, new_credit |-> 1000]
ClaimedExample ==
    [payment_history |-> 3500, credit_utilization |-> 2500,
     credit_history_length |-> 1500, credit_mix |-> 1500, new_credit |-> 1000]

\* the fraction in 1/10000 that C18 gives factor k before the division by
\* the total: a supplied weight (in 1/100) above 1 is a percentage
ClaimedFraction(custom_weights, k) ==
    IF k \notin DOMAIN custom_weights THEN ClaimedDefaults[k]
    ELSE IF custom_weights[k] > 1 * 100 THEN custom_weights[k]
    ELSE 100 * custom_weights[k]

\* C18: normalization takes a supplied weight above 1 as a percentage and a
\* weight of at most 1 as a fraction, ignores keys that are no factor name,
\* fills an unspecified factor with its default and divides the five by
\* their total; 35/25/15/15/10, as percentages or as fractions, normalize to
\* 0.35/0.25/0.15/0.15/0.10.
C18_WeightNormalization ==
    \A w \in Workers :
        \A sf \in Range(local[w].calculator) :
            LET custom_weights == request[w].custom_weights
                total ==
                    SumOver(FactorNames,
                            [k \in FactorNames |-> ClaimedFraction(custom_weights, k)])
            IN  /\ DOMAIN sf.weights = FactorNames
                /\ \A k \in FactorNames :
                    sf.weights[k] * total = ClaimedFraction(custom_weights, k) * sf.total
                /\ custom_weights \in {PercentWeights, FractionWeights} =>
                    \A k \in FactorNames : 10000 * sf.weights[k] = ClaimedExample[k] * sf.total

\* payment_history 100 % and a key that is no factor name: the other four
\* factors take their defaults, the total is 1.65
C18_Witness ==
    \E sf \in Range(local["w1"].calculator) :
        /\ DOMAIN request["w1"].custom_weights = {"payment_history", "bogus_factor"}
        /\ request["w1"].custom_weights.payment_history = 10000
        /\ sf.weights.payment_history = 10000
        /\ sf.weights.credit_mix = 1000
        /\ sf.total = 16500

----------------------------------------------------------------------------
(* Properties of the dynamic range (SpecEngine) *)

\* range_multiplier of C19 in 1/100 for customer c: 1.0 and the maturity,
\* exposure and diversity increments
ClaimedRangeMultiplier(c) ==
    LET ages == AccountAges(c)
        days == IF ages = {} THEN 0 ELSE CHOOSE d \in ages : \A e \in ages : e <= d
        limit == ActiveLimit(c)
        diversity == _get_account_diversity_score(db[c])
    IN  100
        + (IF 100 * days >= 36525 * 10 THEN 20
           ELSE IF 100 * days >= 36525 * 5 THEN 10
           ELSE IF 100 * days < 36525 * 1 THEN 0 - 10
           ELSE 0)
        + (IF limit > 500000 THEN 15
           ELSE IF limit > 100000 THEN 5
           ELSE IF limit < 25000 THEN 0 - 5
           ELSE 0)
        + (IF diversity >= 80 THEN 10 ELSE IF diversity < 40 THEN 0 - 5 ELSE 0)

\* C19: with expansion = 800 * (range_multiplier - 1) the range is min_score
\* = max(150, trunc(200 - expansion / 2)) and max_score = min(1200,
\* trunc(1000 + expansion / 2)); expansion / 2 is the whole number 4 *
\* (range_multiplier in 1/100 - 100).  (The code does not keep this: its
\* min_score is one less for ten of the sums of increments.)
C19_DynamicRangeFormula ==
    \A r \in Results :
        LET multiplier == ClaimedRangeMultiplier(r.cibil_score_obj.customer)
            half_expansion == 4 * (multiplier - 100)
        IN  /\ r.dynamic_range.range_multiplier = 10 * multiplier
            /\ r.dynamic_range.min_score = Max(150, 200 - half_expansion)
            /\ r.dynamic_range.max_score = Min(1200, 1000 + half_expansion)

----------------------------------------------------------------------------
(* Properties of the behavioral adjustments (SpecAdjustments: w1 serves a  *)
(* call on c1 and w2 a call on c2)                                         *)

\* the credit limit of the cards of c created at least a year ago
YearOldLimit(c) ==
    SumLimit(db[c], {r \in DOMAIN db[c].credit_cards : r.created_at >= 365})

\* the year-over-year growth rate of the limit of c is between 10 % and 50 %
GrowthWithinOptimal(c) ==
    /\ YearOldLimit(c) > 0
    /\ 10 * YearOldLimit(c) <= 100 * (ActiveLimit(c) - YearOldLimit(c))
    /\ 100 * (ActiveLimit(c) - YearOldLimit(c)) <= 50 * YearOldLimit(c)

\* C21: the growth adjustment a breakdown reports is 1.02 exactly when the
\* growth rate of the credit limit is between 10 % and 50 %, 0.98 when the
\* growth score is above 90 or below 30, and 1.0 otherwise, in particular
\* without a card older than one year.  (The code does not keep this.)
C21_GrowthAdjustment ==
    \A w \in Workers : \A b \in BreakdownsOf(w) :
        LET c == customer_of(w)
            growth_score == _get_credit_growth_score(db[c])
            adjustment == b.behavioral_adjustments.growth_adjustment
        IN  /\ adjustment = 102 <=> GrowthWithinOptimal(c)
            /\ (growth_score > 90 \/ growth_score < 30) => adjustment = 98
            /\ (~GrowthWithinOptimal(c) /\ growth_score <= 90 /\ growth_score >= 30)
                    => adjustment = 100
            /\ YearOldLimit(c) = 0 => adjustment = 100

\* the steps of the claimed penalty: utilization below pct % on a limit
\* above the given one
ClaimedPenaltySteps == <<<<5, 100000, 85>>, <<2, 50000, 92>>, <<1, 25000, 95>>>>

ClaimedPenalty(c) ==
    LET Applies(i) ==
            /\ 100 * ActiveBalance(c) < ClaimedPenaltySteps[i][1] * ActiveLimit(c)
            /\ ActiveLimit(c) > ClaimedPenaltySteps[i][2]
        applying == {i \in 1 .. Len(ClaimedPenaltySteps) : Applies(i)}
    IN  IF ~HasActiveCard(c) \/ ActiveLimit(c) = 0 \/ applying = {} THEN 100
        ELSE ClaimedPenaltySteps[CHOOSE i \in applying : \A j \in applying : i <= j][3]

\* c and d have active cards with a limit and use the same share of it
SameUtilization(c, d) ==
    /\ HasActiveCard(c) /\ ActiveLimit(c) > 0
    /\ HasActiveCard(d) /\ ActiveLimit(d) > 0
    /\ ActiveBalance(c) * ActiveLimit(d) = ActiveBalance(d) * ActiveLimit(c)

\* C22: the underutilization penalty a breakdown reports is 1.0 without an
\* active card or with a total limit of zero, and otherwise the first of
\* 0.85 (u < 0.05 and L > 100000), 0.92 (u < 0.02 and L > 50000), 0.95
\* (u < 0.01 and L > 25000) that applies, else 1.0; there is no penalty when
\* u >= 0.05 or L <= 25000, and of two customers with the same utilization
\* the one with the smaller limit never has the harsher penalty.
C22_UnderutilizationPenalty ==
    /\ \A w \in Workers : \A b \in BreakdownsOf(w) :
        LET c == customer_of(w)
            penalty == b.behavioral_adjustments.underutilization_penalty
        IN  /\ penalty = ClaimedPenalty(c)
            /\ (HasActiveCard(c) /\ ActiveLimit(c) > 0
                /\ (100 * ActiveBalance(c) >= 5 * ActiveLimit(c) \/ ActiveLimit(c) <= 25000))
                    => penalty = 100
    /\ \A v \in Workers, w \in Workers :
        \A a \in BreakdownsOf(v), b \in BreakdownsOf(w) :
            (SameUtilization(customer_of(v), customer_of(w))
             /\ ActiveLimit(customer_of(v)) <= ActiveLimit(customer_of(w)))
                => a.behavioral_adjustments.underutilization_penalty
                        >= b.behavioral_adjustments.underutilization_penalty

\* two customers use exactly 1 % of their limit: the limit of 100100 is
\* penalized with 0.85, the limit of 50100 with 0.92
C22_Witness ==
    /\ 100 * ActiveBalance("c1") = ActiveLimit("c1") /\ ActiveLimit("c1") = 50100
    /\ 100 * ActiveBalance("c2") = ActiveLimit("c2") /\ ActiveLimit("c2") = 100100
    /\ \E a \in BreakdownsOf("w1"), b \in BreakdownsOf("w2") :
        /\ a.behavioral_adjustments.underutilization_penalty = 92
        /\ b.behavioral_adjustments.underutilization_penalty = 85

----------------------------------------------------------------------------
(* Properties of the composition (SpecEngine: one call on c1)              *)

\* multiplier (in 1/10000) is product (in 1/100000000) rounded to 4 decimals
RoundedTo4(multiplier, product) ==
    /\ 2 * (10000 * multiplier - product) <= 10000
    /\ 2 * (product - 10000 * multiplier) <= 10000

\* the values each sub-multiplier takes, 1.0 among them
ClaimedSubMultipliers ==
    [underutilization_penalty |-> {85, 92, 95, 100},
     diversity_adjustment |-> {95, 100, 102, 105},
     consistency_adjustment |-> {97, 100, 101, 103},
     growth_adjustment |-> {98, 100, 102}]

\* C23: the behavioral multiplier is the product of the four sub-multipliers
\* (underutilization, diversity, consistency, growth) rounded to 4 decimals,
\* and the total_multiplier of a breakdown is the rounded product of the four
\* sub-adjustments reported with it.
C23_MultiplierIsRoundedProduct ==
    /\ \A r \in Results :
        LET h == db[r.cibil_score_obj.customer]
        IN  RoundedTo4(r.behavioral_multiplier,
                       _get_underutilization_penalty(h)
                       * _get_credit_diversity_adjustment(h)
                       * _get_payment_consistency_adjustment(h)
                       * _get_credit_growth_adjustment(h))
    /\ \A b \in Breakdowns :
        LET a == b.behavioral_adjustments
        IN  /\ \A k \in DOMAIN ClaimedSubMultipliers : a[k] \in ClaimedSubMultipliers[k]
            /\ RoundedTo4(a.total_multiplier,
                          a.underutilization_penalty * a.diversity_adjustment
                          * a.consistency_adjustment * a.growth_adjustment)

\* a breakdown reports 1.02 for diversity, 1.03 for consistency and 1.02
\* for growth, no underutilization penalty, and 1.0716 for their product
\* 1.071612
C23_Witness ==
    \E b \in Breakdowns :
        /\ b.behavioral_adjustments.underutilization_penalty = 100
        /\ b.behavioral_adjustments.diversity_adjustment = 102
        /\ b.behavioral_adjustments.consistency_adjustment = 103
        /\ b.behavioral_adjustments.growth_adjustment = 102
        /\ b.behavioral_adjustments.total_multiplier = 10716

----------------------------------------------------------------------------
(* Properties of the totals (SpecTotals: one call on c1)                   *)

\* the weights of the call of w are not negative
NonNegativeCall(w) == NonNegative(request[w].custom_weights)

\* C24: in a breakdown, base_total_score is the sum of the five weighted
\* contributions, each the raw score times the normalized weight (to 2
\* decimals), and lies in [0, 100] for weights that are not negative;
\* improvement_potential is 100 - base_total_score and never negative.  (The
\* code does not keep this.)
C24_BaseTotalAndPotential ==
    \A w \in Workers : \A b \in BreakdownsOf(w) :
        NonNegativeCall(w) =>
            LET sf == local[w].calculator[1]
                contribution == [k \in FactorNames |-> b.score_factors[k].weighted_contribution]
            IN  /\ \A k \in FactorNames :
                    contribution[k]
                        \in RoundChoices(b.score_factors[k].raw_score * sf.weights[k], sf.total)
                /\ b.summary.base_total_score = Total(contribution)
                /\ 0 <= b.summary.base_total_score
                /\ b.summary.base_total_score <= 100 * 100
                /\ b.summary.improvement_potential = 100 * 100 - b.summary.base_total_score
                /\ b.summary.improvement_potential >= 0

\* C26: for the same history and weights the two scoring paths agree: the
\* final score in the CibilScore object of calculate_dynamic_cibil_score
\* (the score a request stores) is the final_cibil_score of the breakdown
\* the request reports, and the base scores agree as well.  (The code does
\* not keep this.)
C26_PathsAgree ==
    \A w \in Workers :
        \A r \in Range(response[w].result), b \in Range(response[w].breakdown) :
            /\ r.cibil_score_obj.score = b.final_cibil_score
            /\ r.final_score = b.final_cibil_score
            /\ r.base_score = b.base_cibil_score
            /\ \A i \in RowsOf(customer_of(w)) : cibil_scores[i].score = b.final_cibil_score

\* C27: with weights that are not negative, on either path, the final score
\* is at least the base score whenever the behavioral multiplier is at least
\* 1, and at most the base score whenever the multiplier is at most 1.
C27_AdjustmentDirection ==
    \A w \in Workers :
        NonNegativeCall(w) =>
            /\ \A r \in ResultsOf(w) :
                /\ r.behavioral_multiplier >= 10000 => r.final_score >= r.base_score
                /\ r.behavioral_multiplier <= 10000 => r.final_score <= r.base_score
            /\ \A b \in BreakdownsOf(w) :
                /\ b.behavioral_adjustments.total_multiplier >= 10000
                        => b.final_cibil_score >= b.base_cibil_score
                /\ b.behavioral_adjustments.total_multiplier <= 10000
                        => b.final_cibil_score <= b.base_cibil_score

\* a request was answered with a multiplier of 1.0716: on both paths the
\* final score is above the base score
C27_Witness ==
    \E r \in Range(response["w1"].result), b \in Range(response["w1"].breakdown) :
        /\ NonNegativeCall("w1")
        /\ r.behavioral_multiplier = 10716
        /\ b.behavioral_adjustments.total_multiplier = 10716
        /\ r.final_score > r.base_score
        /\ b.final_cibil_score > b.base_cibil_score

----------------------------------------------------------------------------
(* Properties of the requests (SpecRequests: calls served one after the    *)
(* other)                                                                  *)

\* the request of w is one the validation rejects: no PAN, a weight key that
\* is not a factor name, or a weight below 0 or above 100
ClaimedRejected(w) ==
    \/ request[w].pan = ""
    \/ \E k \in DOMAIN request[w].custom_weights :
        \/ k \notin FactorNames
        \/ request[w].custom_weights[k] < 0
        \/ request[w].custom_weights[k] > 100 * 100

\* C25: a process_cibil_score request that the validation rejects is
\* answered with status 400 and leaves every stored record unchanged: no
\* CibilScore record is created and no is_latest flag is changed.
C25_RejectedRequestsChangeNothing ==
    [][\A w \in Workers :
        (request[w].op = "process_cibil_score" /\ ClaimedRejected(w)
         /\ pc[w] # "idle" /\ pc'[w] # pc[w]) =>
            /\ pc'[w] = "idle"
            /\ response'[w].status = 400
            /\ cibil_scores' = cibil_scores
            /\ db' = db]_vars

\* with a record stored and marked latest, a request with a weight above
\* 100 has been answered with 400
C25_Witness ==
    /\ Quiet
    /\ request["w1"].op = "process_cibil_score"
    /\ request["w1"].custom_weights = [new_credit |-> 100 * 100 + 1]
    /\ response["w1"].status = 400
    /\ LatestOf("c1") # {}

\* the call of w is calculate_dynamic_cibil_score(commit=False)
UncommittedCall(w) ==
    request[w].op = "calculate_dynamic_cibil_score" /\ ~request[w].commit

\* C28: calculate_dynamic_cibil_score(commit=False) returns the CibilScore
\* object without saving it and leaves the stored CibilScore records
\* unchanged, none inserted and no is_latest flag cleared; so does the call
\* process_cibil_score makes before it saves the object itself.
C28_CommitFalseWritesNothing ==
    [][\A w \in Workers :
        /\ (UncommittedCall(w) /\ pc[w] # "idle" /\ pc'[w] # pc[w]) =>
                /\ cibil_scores' = cibil_scores
                /\ pc'[w] = "idle"
                /\ response'[w].error = "" => Len(response'[w].result) = 1
        /\ (request[w].op = "process_cibil_score" /\ pc[w] = "accepted"
            /\ pc'[w] = "update") =>
                /\ cibil_scores' = cibil_scores
                /\ Len(local'[w].result) = 1]_vars

\* with a record of c1 stored and marked latest, a call with commit=False
\* has returned its object: the record is still the only one and still latest
C28_Witness ==
    /\ Quiet
    /\ UncommittedCall("w1")
    /\ Len(response["w1"].result) = 1
    /\ Len(cibil_scores) = 1
    /\ LatestOf("c1") = {1}

----------------------------------------------------------------------------
(* Properties of the score history (SpecConcurrent: two workers)           *)

\* the record but for its is_latest flag
Unflagged(row) == [row EXCEPT !.is_latest = FALSE]

\* w takes a step of a process_cibil_score call
ProcessStep(w) ==
    request[w].op = "process_cibil_score" /\ pc[w] # "idle" /\ pc'[w] # pc[w]

\* C29: the score history is append-only.  No step deletes a record or
\* changes anything but the is_latest flag of a stored record; a
\* process_cibil_score call that succeeds adds exactly one record, of the
\* requested customer (it is answered with 200 only after its one INSERT),
\* and no step of the call changes a record of another customer, its
\* is_latest flag included.
C29_AppendOnlyHistory ==
    [][/\ Len(cibil_scores') \in {Len(cibil_scores), Len(cibil_scores) + 1}
       /\ \A i \in RowIds : Unflagged(cibil_scores'[i]) = Unflagged(cibil_scores[i])
       /\ \A w \in Workers :
            ProcessStep(w) =>
                /\ \A i \in RowIds :
                        cibil_scores[i].customer # customer_of(w)
                            => cibil_scores'[i] = cibil_scores[i]
                /\ Len(cibil_scores') = Len(cibil_scores) + 1 <=> pc[w] = "insert"
                /\ pc[w] = "insert" =>
                        /\ cibil_scores'[Len(cibil_scores')].customer = customer_of(w)
                        /\ pc'[w] = "respond"
                /\ pc'[w] = "respond" => pc[w] = "insert"
                /\ pc[w] = "respond" => pc'[w] = "idle"
                /\ (pc'[w] = "idle" /\ response'[w].status = 200) => pc[w] = "respond"]_vars

\* both workers have been answered with 200, w1 for c1 and w2 for c2, after
\* an earlier record of c2: c1 has one record, c2 has two, the first demoted
C29_Witness ==
    /\ Quiet
    /\ request["w1"] = Call("process_cibil_score", "c1", NoWeights, FALSE)
    /\ request["w2"] = Call("process_cibil_score", "c2", NoWeights, FALSE)
    /\ response["w1"].status = 200 /\ response["w2"].status = 200
    /\ Cardinality(RowsOf("c1")) = 1 /\ LatestOf("c1") = RowsOf("c1")
    /\ Cardinality(RowsOf("c2")) = 2 /\ Cardinality(LatestOf("c2")) = 1

====
